---- MODULE Spec2Model ----
(***************************************************************************)
(* pi-browser: the tool-calling agent loop (runAgent and its caller main,  *)
(* src/src/cli.ts), the stop flag of the web dashboard                     *)
(* (src/src/web-client.ts), the extension command channel                  *)
(* (sendExtCommand / startExtensionServer, src/src/cli.ts), the tool       *)
(* dispatcher (executeBrowserTool / executeExtensionTool, src/src/cli.ts), *)
(* the click, fill, wait and download cases of executeBrowserTool run      *)
(* statement by statement against a page, the parallel orchestrator (spec  *)
(* section 4.4; its code is not part of src/), the Telegram bot           *)
(* (src/unnamed/part_000), the local browser lifecycle (startBrowser /     *)
(* stopBrowser, src/src/cli.ts), main's start-up in extension mode, the    *)
(* actuator's background worker (src/unnamed/part_001) and the task cards  *)
(* of the dashboard page (src/src/web-client.ts).                          *)
(***************************************************************************)
EXTENDS Integers, Sequences, FiniteSets, TLC

(***************************************************************************)
(* Bounds of the model.                                                    *)
(***************************************************************************)
\* largest turn budget explored; the source fixes maxTurns per CLI variant
\* (20, 20 and 100), the loop itself is the same for every value
MaxTurns == 2
\* largest number of content blocks in one assistant response
MaxBlocks == 2
\* largest number of tool calls executed in one run
MaxToolCalls == 3

VARIABLES
    \* ---- runAgent (cli.ts 2484-2632) and main (cli.ts 2860-2873) ----
    messages,     \* ctx.messages
    maxTurns,     \* const maxTurns
    turn,         \* loop variable turn
    pc,           \* position of runAgent / main
    toolCalls,    \* const toolCalls of the current turn
    callIdx,      \* position of the for-of loop over toolCalls
    modelCalls,   \* number of streamSimple calls made so far
    dispatchLog,  \* executeBrowserTool calls started so far, in order
    lastOutcome,  \* how the last finished executeBrowserTool call settled
    modelError,   \* message of the model-call failure, "none" if none
    console,      \* what runAgent and main printed (the lines that matter)
    \* ---- web dashboard server (web-client.ts 1360, 1676-1686) ----
    stoppedTasks, \* export const stoppedTasks
    lastCtl,      \* per task id, the last stopTask / deleteTask message handled
    \* ---- extension command channel (cli.ts 1678-1756) ----
    extClient,    \* let extClient: the connection in use, NoConn for null
    sockState,    \* readyState of every connection the server may accept
    extensionConnectedOnce,
    messageId,    \* let messageId
    pendingRequests, \* const pendingRequests: id -> the call whose resolve/reject it holds
    calls,        \* every sendExtCommand call made so far and how its promise settled
    timers,       \* id -> due time of its setTimeout, armed and not yet run
    sent,         \* the wire messages handed to extClient.send, in order
    now,          \* the clock, in milliseconds
    lastHandled,  \* the last frame a message handler received, and whether it matched
    \* ---- tool dispatcher (cli.ts 1675, 2156-2430) ----
    browserMode,  \* let browserMode: "cdp" or "extension"
    \* ---- one executeBrowserTool call on the local browser (cli.ts 2243-2430) ----
    op,           \* name and args of the call
    opc,          \* position of the call in its case
    stage,        \* browser_wait: the condition the case is at (1..4), 5 past the last
    results,      \* browser_wait: const results
    pageLog,      \* the page operations the call started, in order, and how they ended
    opOutcome,    \* how the call settled
    page,         \* the page: which lookups find an element, whether a click downloads
    armed,        \* browser_download: page.waitForEvent("download") is waiting
    downloadEvent, \* browser_download: the page's download event
    savedAs,      \* browser_download: the file name handed to download.saveAs
    \* ---- parallel orchestrator (spec section 4.4) ----
    orchPc,       \* position of runAll
    nSessions,    \* sessions.length
    missionList,  \* missions
    assignments,  \* the task assignments, in mission order
    taskState,    \* per task: not launched, between actions, in an action, settled
    report,       \* the aggregated outcome, once every task settled
    \* ---- Telegram bot (unnamed/part_000) ----
    allowedUsers, \* config.allowedUsers
    handled,      \* the text messages handled so far, with what each handler call did
    \* ---- local browser (cli.ts 1670-1673, 1963-2068) ----
    browser,      \* let browser: which Chrome it is connected to, NoBrowser for null
    context,      \* let context
    chromeProcess, \* let chromeProcess: the recorded process, NoProcess for null
    procs,        \* every Chrome process spawned so far: running, exited or killed
    lbPc,         \* position of the startBrowser / stopBrowser call in progress
    probes,       \* readiness probes made by the current launch
    closeCalledOn, \* the browsers browser.close() was called on
    lifecycle,    \* the last startBrowser / stopBrowser call and how it ended
    lifecycleCalls, \* startBrowser / stopBrowser calls made so far
    \* ---- main (cli.ts 1677, 2836-2873) ----
    wss,          \* let wss: TRUE while the extension server is up, FALSE for null
    exitStatus,   \* the status main exited with, "running" before
    \* ---- actuator: the extension's background worker (unnamed/part_001) ----
    ws,           \* let ws: the socket it refers to, NoSocket for null
    socks,        \* readyState of every WebSocket the worker created, in order
    retryTimers,  \* armed setTimeout(connect, 5000) timers
    startupDone,  \* the start-up triggers that have run
    inflight,     \* commands whose onmessage handler awaits handleCommand
    finished,     \* the handlers that have finished, with how and on what socket state
    sentReplies,  \* the frames the worker handed to a socket's send, in order
    received,     \* command messages received so far
    \* ---- dashboard page (web-client.ts 750-834, 1210-1307) ----
    tasks,        \* const tasks: per task id its status; "unused", "deleted": not in the map
    toClient      \* server messages on their way to the page, in order

agentVars == <<messages, maxTurns, turn, pc, toolCalls, callIdx, modelCalls,
               dispatchLog, lastOutcome, modelError, console>>

webVars == <<stoppedTasks, lastCtl>>

chanVars == <<extClient, sockState, extensionConnectedOnce, messageId,
              pendingRequests, calls, timers, sent, now, lastHandled>>

toolVars == <<browserMode>>

pageVars == <<op, opc, stage, results, pageLog, opOutcome, page, armed,
              downloadEvent, savedAs>>

orchVars == <<orchPc, nSessions, missionList, assignments, taskState, report>>

botVars == <<allowedUsers, handled>>

localVars == <<browser, context, chromeProcess, procs, lbPc, probes, closeCalledOn,
               lifecycle, lifecycleCalls>>

mainVars == <<wss, exitStatus>>

actVars == <<ws, socks, retryTimers, startupDone, inflight, finished, sentReplies,
             received>>

dashVars == <<tasks, toClient>>

vars == <<agentVars, webVars, chanVars, toolVars, pageVars, orchVars, botVars, localVars,
          mainVars, actVars, dashVars>>

(***************************************************************************)
(* Local browser lifecycle (cli.ts startBrowser 1963-2051, stopBrowser     *)
(* 2053-2068).  Both functions are async; runAgent and main await them, so *)
(* one call is in progress at a time.                                      *)
(***************************************************************************)
\* startBrowser / stopBrowser calls made during a run
MaxLifecycleCalls == 3
\* Chrome processes spawned during a run
MaxLaunches == 2
\* for (let i = 0; i < 50; i++): readiness probes of one launch
MaxProbes == 50

NoBrowser == "null"
NoContext == "null"
\* chromeProcess = null; a recorded process is its position in procs
NoProcess == 0

InitLocalIdle ==
    /\ browser = NoBrowser
    /\ context = NoContext
    /\ chromeProcess = NoProcess
    /\ procs = << >>
    /\ lbPc = "idle"
    /\ probes = 0
    /\ closeCalledOn = {}
    /\ lifecycle = "none"
    /\ lifecycleCalls = 0

\* chromeProcess.process.kill("SIGTERM") on the recorded process
Kill(ps, p) ==
    IF p # NoProcess /\ ps[p] = "running" THEN [ps EXCEPT ![p] = "killed"] ELSE ps

\* startBrowser is called: if (browser) return; otherwise look for a Chrome
\* that is already listening
StartBrowser ==
    /\ lbPc = "idle"
    /\ lifecycleCalls < MaxLifecycleCalls
    /\ lifecycleCalls' = lifecycleCalls + 1
    /\ IF browser # NoBrowser
       THEN /\ lifecycle' = "start:returned"
            /\ UNCHANGED lbPc
       ELSE /\ lifecycle' = "start:running"
            /\ lbPc' = "start:fetch"
    /\ UNCHANGED <<browser, context, chromeProcess, procs, probes, closeCalledOn>>
    /\ UNCHANGED <<agentVars, webVars, chanVars, toolVars, pageVars, orchVars, botVars,
                 mainVars, actVars, dashVars>>

\* fetch of the existing Chrome's /json/version: res.ok, or not ok / a throw
\* that the surrounding catch swallows
ExistingProbe(ok) ==
    /\ lbPc = "start:fetch"
    /\ lbPc' = IF ok THEN "start:connect" ELSE "start:spawn"
    /\ UNCHANGED <<browser, context, chromeProcess, procs, probes, closeCalledOn,
                   lifecycle, lifecycleCalls>>
    /\ UNCHANGED <<agentVars, webVars, chanVars, toolVars, pageVars, orchVars, botVars,
                 mainVars, actVars, dashVars>>

\* browser = await chromium.connectOverCDP(existing); context = ...; return.
\* A rejection is swallowed by the same catch and the launch path follows.
ExistingConnect(ok) ==
    /\ lbPc = "start:connect"
    /\ IF ok
       THEN /\ browser' = "attached"
            /\ context' = "attached"
            /\ lbPc' = "idle"
            /\ lifecycle' = "start:returned"
       ELSE /\ lbPc' = "start:spawn"
            /\ UNCHANGED <<browser, context, lifecycle>>
    /\ UNCHANGED <<chromeProcess, procs, probes, closeCalledOn, lifecycleCalls>>
    /\ UNCHANGED <<agentVars, webVars, chanVars, toolVars, pageVars, orchVars, botVars,
                 mainVars, actVars, dashVars>>

\* findChromeExecutable: none found throws; otherwise spawn(executablePath, args)
SpawnChrome(found) ==
    /\ lbPc = "start:spawn"
    /\ IF found
       THEN /\ Len(procs) < MaxLaunches
            /\ procs' = Append(procs, "running")
            /\ probes' = 0
            /\ lbPc' = "start:probe"
            /\ UNCHANGED lifecycle
       ELSE /\ lbPc' = "idle"
            /\ lifecycle' = "start:threw"
            /\ UNCHANGED <<procs, probes>>
    /\ UNCHANGED <<browser, context, chromeProcess, closeCalledOn, lifecycleCalls>>
    /\ UNCHANGED <<agentVars, webVars, chanVars, toolVars, pageVars, orchVars, botVars,
                 mainVars, actVars, dashVars>>

\* the spawned Chrome exits by itself (for instance its profile is in use)
ProcessExits ==
    /\ lbPc = "start:probe"
    /\ procs[Len(procs)] = "running"
    /\ procs' = [procs EXCEPT ![Len(procs)] = "exited"]
    /\ UNCHANGED <<browser, context, chromeProcess, lbPc, probes, closeCalledOn,
                   lifecycle, lifecycleCalls>>
    /\ UNCHANGED <<agentVars, webVars, chanVars, toolVars, pageVars, orchVars, botVars,
                 mainVars, actVars, dashVars>>

\* one pass of the readiness loop: fetch the launched Chrome's /json/version;
\* res.ok sets cdpReady and breaks, anything else waits 200 ms and goes on.
\* After the loop with cdpReady: chromeProcess = { process: proc, ... } and
\* connectOverCDP is awaited.
ReadinessProbe(ok) ==
    /\ lbPc = "start:probe"
    /\ probes < MaxProbes
    /\ probes' = probes + 1
    /\ IF ok
       THEN /\ procs[Len(procs)] = "running"
            /\ chromeProcess' = Len(procs)
            /\ lbPc' = "start:attach"
       ELSE UNCHANGED <<chromeProcess, lbPc>>
    /\ UNCHANGED <<browser, context, procs, closeCalledOn, lifecycle, lifecycleCalls>>
    /\ UNCHANGED <<agentVars, webVars, chanVars, toolVars, pageVars, orchVars, botVars,
                 mainVars, actVars, dashVars>>

\* the loop ended without cdpReady: throw (either message), proc is not recorded
ProbesExhausted ==
    /\ lbPc = "start:probe"
    /\ probes = MaxProbes
    /\ lbPc' = "idle"
    /\ lifecycle' = "start:threw"
    /\ UNCHANGED <<browser, context, chromeProcess, procs, probes, closeCalledOn,
                   lifecycleCalls>>
    /\ UNCHANGED <<agentVars, webVars, chanVars, toolVars, pageVars, orchVars, botVars,
                 mainVars, actVars, dashVars>>

\* browser = await chromium.connectOverCDP(cdpUrl); context = contexts[0] ?? ...
\* A rejection leaves startBrowser with chromeProcess already assigned.
LaunchedConnect(ok) ==
    /\ lbPc = "start:attach"
    /\ IF ok
       THEN /\ browser' = "launched"
            /\ context' = "launched"
            /\ lifecycle' = "start:returned"
       ELSE /\ lifecycle' = "start:threw"
            /\ UNCHANGED <<browser, context>>
    /\ lbPc' = "idle"
    /\ UNCHANGED <<chromeProcess, procs, probes, closeCalledOn, lifecycleCalls>>
    /\ UNCHANGED <<agentVars, webVars, chanVars, toolVars, pageVars, orchVars, botVars,
                 mainVars, actVars, dashVars>>

\* stopBrowser is called.  With browser and chromeProcess both set it awaits
\* browser.close(); otherwise it runs to its end without an await.
StopBrowser ==
    /\ lbPc = "idle"
    /\ lifecycleCalls < MaxLifecycleCalls
    /\ lifecycleCalls' = lifecycleCalls + 1
    /\ IF browser # NoBrowser /\ chromeProcess # NoProcess
       THEN /\ lbPc' = "stop:close"
            /\ closeCalledOn' = closeCalledOn \cup { browser }
            /\ lifecycle' = "stop:running"
            /\ UNCHANGED <<browser, context, chromeProcess, procs>>
       ELSE /\ browser' = NoBrowser
            /\ context' = NoContext
            /\ procs' = Kill(procs, chromeProcess)
            /\ chromeProcess' = NoProcess
            /\ lifecycle' = "stop:returned"
            /\ UNCHANGED <<lbPc, closeCalledOn>>
    /\ UNCHANGED probes
    /\ UNCHANGED <<agentVars, webVars, chanVars, toolVars, pageVars, orchVars, botVars,
                 mainVars, actVars, dashVars>>

\* await browser.close() resolves: null the references, kill the process
CloseResolves ==
    /\ lbPc = "stop:close"
    /\ browser' = NoBrowser
    /\ context' = NoContext
    /\ procs' = Kill(procs, chromeProcess)
    /\ chromeProcess' = NoProcess
    /\ lbPc' = "idle"
    /\ lifecycle' = "stop:returned"
    /\ UNCHANGED <<probes, closeCalledOn, lifecycleCalls>>
    /\ UNCHANGED <<agentVars, webVars, chanVars, toolVars, pageVars, orchVars, botVars,
                 mainVars, actVars, dashVars>>

\* await browser.close() rejects: stopBrowser throws where it stands
CloseRejects ==
    /\ lbPc = "stop:close"
    /\ lbPc' = "idle"
    /\ lifecycle' = "stop:threw"
    /\ UNCHANGED <<browser, context, chromeProcess, procs, probes, closeCalledOn,
                   lifecycleCalls>>
    /\ UNCHANGED <<agentVars, webVars, chanVars, toolVars, pageVars, orchVars, botVars,
                 mainVars, actVars, dashVars>>

\* a whole startBrowser call as a tool call of a mission meets it: no Chrome
\* is listening yet, the launch and its first probe succeed
StartBrowserLaunches ==
    IF browser # NoBrowser
    THEN UNCHANGED <<browser, context, chromeProcess, procs, probes>>
    ELSE /\ procs' = Append(procs, "running")
         /\ probes' = 1
         /\ chromeProcess' = Len(procs) + 1
         /\ browser' = "launched"
         /\ context' = "launched"

\* a whole stopBrowser call whose browser.close() resolves
StopBrowserWhole ==
    /\ closeCalledOn' = IF browser # NoBrowser /\ chromeProcess # NoProcess
                        THEN closeCalledOn \cup { browser } ELSE closeCalledOn
    /\ browser' = NoBrowser
    /\ context' = NoContext
    /\ procs' = Kill(procs, chromeProcess)
    /\ chromeProcess' = NoProcess

\* what one executeBrowserTool call does to the local browser: the extension
\* branch returns before the browser is looked at, the direct branch starts it
\* when there is none (cli.ts 2248-2255)
LocalBrowserOfTool ==
    IF browserMode = "extension"
    THEN UNCHANGED localVars
    ELSE /\ StartBrowserLaunches
         /\ UNCHANGED <<lbPc, closeCalledOn, lifecycle, lifecycleCalls>>

\* the end of main in extension mode: stopExtensionServer() closes the server
\* and clears extClient (cli.ts 1750-1756); in direct mode the channel is left alone
StopExtensionServerAtExit ==
    IF browserMode = "extension"
    THEN /\ wss' = FALSE
         /\ extClient' = "null"  \* NoConn
         /\ UNCHANGED <<sockState, extensionConnectedOnce, messageId, pendingRequests,
                        calls, timers, sent, now, lastHandled>>
    ELSE UNCHANGED <<chanVars, wss>>

\* the end of main: stopExtensionServer() in extension mode, otherwise
\* await stopBrowser() (cli.ts 2866-2871)
LocalBrowserOfExit ==
    IF browserMode = "extension"
    THEN UNCHANGED localVars
    ELSE /\ StopBrowserWhole
         /\ UNCHANGED <<lbPc, probes, lifecycle, lifecycleCalls>>


(***************************************************************************)
(* Extension command channel (cli.ts 1678-1756).                           *)
(***************************************************************************)
\* sendExtCommand calls made during a run
MaxCalls == 2

\* the ws objects the server may accept during a run
Conns == { "connA", "connB" }

\* the first of them
OneConn == { "connA" }

\* extClient = null
NoConn == "null"

Commands == { "navigate" }

\* msg.result values; "undefined" stands for a missing field
Results == { "R1", "R2" }

\* msg.error values, the empty string among them
ErrorTexts == { "E1", "" }

Undefined == "undefined"

\* what the actuator may put on the wire, after JSON.parse; kind "garbage" is a
\* frame JSON.parse rejects
Replies ==
    { [id |-> k, kind |-> "result", value |-> r] : k \in 1..MaxCalls, r \in Results }
        \cup { [id |-> k, kind |-> "error", value |-> e] : k \in 1..MaxCalls, e \in ErrorTexts }
        \cup { [id |-> 0, kind |-> "garbage", value |-> ""] }

\* the replies of an actuator that answers every command with a result
ResultReplies == { r \in Replies : r.value = "R1" }

\* msg.error / msg.result of a parsed reply
MsgError(msg) == IF msg.kind = "error" THEN msg.value ELSE Undefined

MsgResult(msg) == IF msg.kind = "result" THEN msg.value ELSE Undefined

\* JavaScript truthiness of msg.error: undefined and "" are falsy
Truthy(v) == v # Undefined /\ v # ""

NotConnectedText == "Extension not connected"

TimeoutText(command) == "command timeout: " \o command

\* the delay given to setTimeout in sendExtCommand, in milliseconds
TimeoutMs == 60000

\* the clock advances in steps of half a timeout window
TickMs == TimeoutMs \div 2

NoEvent == [src |-> "none", id |-> 0, kind |-> "", value |-> "", conn |-> NoConn]

NoMessage == [id |-> 0, kind |-> "none", matched |-> FALSE]

\* what lastHandled keeps of a frame: msg.id, and whether JSON.parse accepted it
FrameKind(msg) == IF msg.kind = "garbage" THEN "garbage" ELSE "reply"

InitChan ==
    /\ extClient = NoConn
    /\ sockState = [c \in Conns |-> "idle"]
    /\ extensionConnectedOnce = FALSE
    /\ messageId = 0
    /\ pendingRequests = << >>
    /\ calls = << >>
    /\ timers = << >>
    /\ sent = << >>
    /\ now = 0
    /\ lastHandled = NoMessage

\* accepting a connection fails what is pending
Connect_FailsPending(c) ==
    /\ sockState[c] = "idle"
    /\ sockState' = [sockState EXCEPT ![c] = "open"]
    /\ extensionConnectedOnce' = TRUE
    /\ extClient' = c
    /\ pendingRequests' = << >>
    /\ calls' = [i \in 1..Len(calls) |->
                    IF calls[i].state = "pending"
                    THEN [calls[i] EXCEPT !.state = "rejected", !.value = NotConnectedText,
                                          !.settles = 1,
                                          !.by = [NoEvent EXCEPT !.src = "superseded"]]
                    ELSE calls[i]]
    /\ UNCHANGED <<messageId, timers, sent, now, lastHandled>>
    /\ UNCHANGED <<agentVars, webVars, toolVars, pageVars, orchVars, botVars, localVars,
                 mainVars, actVars, dashVars>>

\* wss.on("connection", (ws) => ...): a new inbound connection is accepted
Connect(c) ==
    /\ sockState[c] = "idle"
    /\ sockState' = [sockState EXCEPT ![c] = "open"]
    /\ extensionConnectedOnce' = TRUE
    /\ extClient' = c
    /\ UNCHANGED <<messageId, pendingRequests, calls, timers, sent, now, lastHandled>>
    /\ UNCHANGED <<agentVars, webVars, toolVars, pageVars, orchVars, botVars, localVars,
                 mainVars, actVars, dashVars>>

\* the socket of connection c leaves readyState OPEN (close handshake started)
BeginClose(c) ==
    /\ sockState[c] = "open"
    /\ sockState' = [sockState EXCEPT ![c] = "closing"]
    /\ UNCHANGED <<extClient, extensionConnectedOnce, messageId, pendingRequests,
                   calls, timers, sent, now, lastHandled>>
    /\ UNCHANGED <<agentVars, webVars, toolVars, pageVars, orchVars, botVars, localVars,
                 mainVars, actVars, dashVars>>

\* the close handler rejects what is pending
CloseEvent_RejectsPending(c) ==
    /\ sockState[c] = "closing"
    /\ sockState' = [sockState EXCEPT ![c] = "closed"]
    /\ extClient' = NoConn
    /\ pendingRequests' = << >>
    /\ calls' = [i \in 1..Len(calls) |->
                    IF calls[i].state = "pending"
                    THEN [calls[i] EXCEPT !.state = "rejected", !.value = NotConnectedText,
                                          !.settles = 1,
                                          !.by = [NoEvent EXCEPT !.src = "close"]]
                    ELSE calls[i]]
    /\ UNCHANGED <<extensionConnectedOnce, messageId, timers, sent, now, lastHandled>>
    /\ UNCHANGED <<agentVars, webVars, toolVars, pageVars, orchVars, botVars, localVars,
                 mainVars, actVars, dashVars>>

\* ws.on("close", ...) of connection c
CloseEvent(c) ==
    /\ sockState[c] = "closing"
    /\ sockState' = [sockState EXCEPT ![c] = "closed"]
    /\ extClient' = NoConn
    /\ UNCHANGED <<extensionConnectedOnce, messageId, pendingRequests, calls, timers,
                   sent, now, lastHandled>>
    /\ UNCHANGED <<agentVars, webVars, toolVars, pageVars, orchVars, botVars, localVars,
                 mainVars, actVars, dashVars>>

\* map.set(id, v)
MapSet(map, id, v) == [k \in DOMAIN map \cup {id} |-> IF k = id THEN v ELSE map[k]]

\* pendingRequests.delete(id)
MapDelete(map, id) == [k \in DOMAIN map \ {id} |-> map[k]]

\* the id is taken before the connection is looked at
SendExtCommand_IdBeforeCheck(command) ==
    /\ Len(calls) < MaxCalls
    /\ messageId' = messageId + 1
    /\ IF extClient = NoConn \/ sockState[extClient] # "open"
       THEN /\ calls' = Append(calls, [id |-> 0, command |-> command, conn |-> NoConn,
                                       sentAt |-> now, state |-> "rejected",
                                       value |-> NotConnectedText, settles |-> 1,
                                       by |-> [NoEvent EXCEPT !.src = "notConnected"]])
            /\ UNCHANGED <<pendingRequests, timers, sent>>
       ELSE LET id == messageId + 1
            IN  /\ calls' = Append(calls, [id |-> id, command |-> command, conn |-> extClient,
                                           sentAt |-> now, state |-> "pending",
                                           value |-> Undefined, settles |-> 0, by |-> NoEvent])
                /\ pendingRequests' = MapSet(pendingRequests, id, Len(calls) + 1)
                /\ sent' = Append(sent, [id |-> id, command |-> command, conn |-> extClient])
                /\ timers' = MapSet(timers, id, now + TimeoutMs)
    /\ UNCHANGED <<extClient, sockState, extensionConnectedOnce, now, lastHandled>>
    /\ UNCHANGED <<agentVars, webVars, toolVars, pageVars, orchVars, botVars, localVars,
                 mainVars, actVars, dashVars>>

\* the id is the number of requests pending, plus one
SendExtCommand_SizeAsId(command) ==
    /\ Len(calls) < MaxCalls
    /\ IF extClient = NoConn \/ sockState[extClient] # "open"
       THEN /\ calls' = Append(calls, [id |-> 0, command |-> command, conn |-> NoConn,
                                       sentAt |-> now, state |-> "rejected",
                                       value |-> NotConnectedText, settles |-> 1,
                                       by |-> [NoEvent EXCEPT !.src = "notConnected"]])
            /\ UNCHANGED <<messageId, pendingRequests, timers, sent>>
       ELSE LET id == Cardinality(DOMAIN pendingRequests) + 1
            IN  /\ messageId' = id
                /\ calls' = Append(calls, [id |-> id, command |-> command, conn |-> extClient,
                                           sentAt |-> now, state |-> "pending",
                                           value |-> Undefined, settles |-> 0, by |-> NoEvent])
                /\ pendingRequests' = MapSet(pendingRequests, id, Len(calls) + 1)
                /\ sent' = Append(sent, [id |-> id, command |-> command, conn |-> extClient])
                /\ timers' = MapSet(timers, id, now + TimeoutMs)
    /\ UNCHANGED <<extClient, sockState, extensionConnectedOnce, now, lastHandled>>
    /\ UNCHANGED <<agentVars, webVars, toolVars, pageVars, orchVars, botVars, localVars,
                 mainVars, actVars, dashVars>>

\* the body of sendExtCommand(command, params)
SendExtCommandBody(command) ==
    /\ IF extClient = NoConn \/ sockState[extClient] # "open"
       THEN /\ calls' = Append(calls, [id |-> 0, command |-> command, conn |-> NoConn,
                                       sentAt |-> now, state |-> "rejected",
                                       value |-> NotConnectedText, settles |-> 1,
                                       by |-> [NoEvent EXCEPT !.src = "notConnected"]])
            /\ UNCHANGED <<messageId, pendingRequests, timers, sent>>
       ELSE LET id == messageId + 1
            IN  /\ messageId' = id
                /\ calls' = Append(calls, [id |-> id, command |-> command, conn |-> extClient,
                                           sentAt |-> now, state |-> "pending",
                                           value |-> Undefined, settles |-> 0, by |-> NoEvent])
                /\ pendingRequests' = MapSet(pendingRequests, id, Len(calls) + 1)
                /\ sent' = Append(sent, [id |-> id, command |-> command, conn |-> extClient])
                /\ timers' = MapSet(timers, id, now + TimeoutMs)
    /\ UNCHANGED <<extClient, sockState, extensionConnectedOnce, now, lastHandled>>

\* some caller calls sendExtCommand(command, params)
SendExtCommand(command) ==
    /\ Len(calls) < MaxCalls
    /\ SendExtCommandBody(command)
    /\ UNCHANGED <<agentVars, webVars, toolVars, pageVars, orchVars, botVars, localVars,
                 mainVars, actVars, dashVars>>

\* pending.reject(new Error(msg.error)) or pending.resolve(msg.result)
SettleByReply(call, c, msg) ==
    IF Truthy(MsgError(msg))
    THEN [call EXCEPT !.state = "rejected", !.value = MsgError(msg),
                      !.settles = call.settles + 1,
                      !.by = [src |-> "reply", id |-> msg.id, kind |-> msg.kind,
                              value |-> msg.value, conn |-> c]]
    ELSE [call EXCEPT !.state = "resolved", !.value = MsgResult(msg),
                      !.settles = call.settles + 1,
                      !.by = [src |-> "reply", id |-> msg.id, kind |-> msg.kind,
                              value |-> msg.value, conn |-> c]]

\* an unmatched reply is given to the oldest pending request
OnMessage_OldestPending(c, msg) ==
    /\ sockState[c] = "open"
    /\ LET target == IF msg.kind # "garbage" /\ msg.id \in DOMAIN pendingRequests
                     THEN { msg.id }
                     ELSE { k \in DOMAIN pendingRequests :
                              \A j \in DOMAIN pendingRequests : k <= j }
       IN  IF target # {}
           THEN \E k \in target :
                   /\ pendingRequests' = MapDelete(pendingRequests, k)
                   /\ calls' = [calls EXCEPT ![pendingRequests[k]] =
                                    SettleByReply(calls[pendingRequests[k]], c, msg)]
           ELSE UNCHANGED <<pendingRequests, calls>>
    /\ lastHandled' = [id |-> msg.id, kind |-> FrameKind(msg),
                       matched |-> (msg.kind # "garbage" /\ msg.id \in DOMAIN pendingRequests)]
    /\ UNCHANGED <<extClient, sockState, extensionConnectedOnce, messageId, timers, sent, now>>
    /\ UNCHANGED <<agentVars, webVars, toolVars, pageVars, orchVars, botVars, localVars,
                 mainVars, actVars, dashVars>>

\* ws.on("message", (data) => ...) of connection c
OnMessage(c, msg) ==
    /\ sockState[c] = "open"
    /\ IF msg.kind # "garbage" /\ msg.id \in DOMAIN pendingRequests
       THEN /\ pendingRequests' = MapDelete(pendingRequests, msg.id)
            /\ calls' = [calls EXCEPT ![pendingRequests[msg.id]] =
                             SettleByReply(calls[pendingRequests[msg.id]], c, msg)]
            /\ lastHandled' = [id |-> msg.id, kind |-> FrameKind(msg), matched |-> TRUE]
       ELSE /\ UNCHANGED <<pendingRequests, calls>>
            /\ lastHandled' = [id |-> msg.id, kind |-> FrameKind(msg), matched |-> FALSE]
    /\ UNCHANGED <<extClient, sockState, extensionConnectedOnce, messageId, timers, sent, now>>
    /\ UNCHANGED <<agentVars, webVars, toolVars, pageVars, orchVars, botVars, localVars,
                 mainVars, actVars, dashVars>>

\* time passes; a timer that is due runs before the clock moves on, and the
\* clock is only watched while a timer is armed
Tick ==
    /\ DOMAIN timers # {}
    /\ \A id \in DOMAIN timers : timers[id] > now
    /\ now' = now + TickMs
    /\ UNCHANGED <<extClient, sockState, extensionConnectedOnce, messageId, pendingRequests,
                   calls, timers, sent, lastHandled>>
    /\ UNCHANGED <<agentVars, webVars, toolVars, pageVars, orchVars, botVars, localVars,
                 mainVars, actVars, dashVars>>

\* reject(new Error(`... ${command}`)) of the timeout callback
SettleByTimeout(call) ==
    [call EXCEPT !.state = "rejected", !.value = TimeoutText(call.command),
                 !.settles = call.settles + 1,
                 !.by = [NoEvent EXCEPT !.src = "timeout"]]

\* the timeout callback runs without waiting for its delay
TimeoutFires_NoDelay(id) ==
    /\ id \in DOMAIN timers
    /\ timers' = MapDelete(timers, id)
    /\ IF id \in DOMAIN pendingRequests
       THEN /\ pendingRequests' = MapDelete(pendingRequests, id)
            /\ calls' = [calls EXCEPT ![pendingRequests[id]] =
                             SettleByTimeout(calls[pendingRequests[id]])]
       ELSE UNCHANGED <<pendingRequests, calls>>
    /\ UNCHANGED <<extClient, sockState, extensionConnectedOnce, messageId, sent, now,
                   lastHandled>>
    /\ UNCHANGED <<agentVars, webVars, toolVars, pageVars, orchVars, botVars, localVars,
                 mainVars, actVars, dashVars>>

\* the setTimeout callback armed by sendExtCommand for id runs, its delay over
TimeoutFires(id) ==
    /\ id \in DOMAIN timers
    /\ now >= timers[id]
    /\ timers' = MapDelete(timers, id)
    /\ IF id \in DOMAIN pendingRequests
       THEN /\ pendingRequests' = MapDelete(pendingRequests, id)
            /\ calls' = [calls EXCEPT ![pendingRequests[id]] =
                             SettleByTimeout(calls[pendingRequests[id]])]
       ELSE UNCHANGED <<pendingRequests, calls>>
    /\ UNCHANGED <<extClient, sockState, extensionConnectedOnce, messageId, sent, now,
                   lastHandled>>
    /\ UNCHANGED <<agentVars, webVars, toolVars, pageVars, orchVars, botVars, localVars,
                 mainVars, actVars, dashVars>>

(***************************************************************************)
(* Messages and content blocks.                                            *)
(***************************************************************************)
TextBlock == [type |-> "text"]

\* a string argument of a tool call, as its characters; NoArg is an absent one
Arg(chars) == [present |-> TRUE, chars |-> chars]

NoArg == [present |-> FALSE, chars |-> << >>]

\* call.arguments, reduced to the argument the model follows
NoArguments == [timeMs |-> NoArg]

ToolCall(id, name) ==
    [type |-> "toolCall", id |-> id, name |-> name, arguments |-> NoArguments]

\* a browser_wait call with its timeMs argument
WaitCall(id, timeMs) ==
    [type |-> "toolCall", id |-> id, name |-> "browser_wait",
     arguments |-> [timeMs |-> timeMs]]

\* the tool calls the model may emit in this model
ToolCallBlocks ==
    { ToolCall("call_a", "browser_navigate"),
      ToolCall("call_b", "browser_screenshot") }

Blocks == {TextBlock} \cup ToolCallBlocks

RECURSIVE SeqsUpTo(_, _)
SeqsUpTo(S, n) ==
    IF n = 0 THEN { <<>> }
    ELSE LET shorter == SeqsUpTo(S, n - 1)
         IN  shorter \cup { Append(s, x) : s \in { t \in shorter : Len(t) = n - 1 }, x \in S }

\* the contents explored: an optional leading text block, then tool calls
Contents ==
    { c \in SeqsUpTo(Blocks, MaxBlocks) : \A i \in 2..Len(c) : c[i].type = "toolCall" }

\* the assembled responses s.result() may yield
Responses == { [role |-> "assistant", content |-> c] : c \in Contents }

\* failures of the model client
ModelErrors == { "model unavailable" }

\* messages: [{ role: "user", content: mission }]
MissionMessage == [role |-> "user", content |-> "mission"]

\* the corrective user message pushed when the model neither calls a tool nor answers
NudgeMessage == [role |-> "user", content |-> "nudge"]

\* response.content.filter((b) => b.type === "toolCall")
FilterToolCalls(content) == SelectSeq(content, LAMBDA b : b.type = "toolCall")

\* response.content.find((b) => b.type === "text") is defined
HasText(content) == \E i \in 1..Len(content) : content[i].type = "text"

(***************************************************************************)
(* executeBrowserTool as seen by the loop: it resolves with {text, image?} *)
(* or rejects with an Error.                                               *)
(***************************************************************************)
ToolErrors == { "Timeout 30000ms exceeded" }

\* const browserTools: the names of the registry
Registry ==
    { "browser_navigate", "browser_click", "browser_fill", "browser_press",
      "browser_screenshot", "browser_snapshot", "browser_scroll", "browser_get_text",
      "browser_wait", "browser_download" }

\* the command executeExtensionTool sends for a tool
ExtCommand ==
    [ browser_navigate |-> "navigate", browser_click |-> "click", browser_fill |-> "fill",
      browser_press |-> "press", browser_screenshot |-> "screenshot",
      browser_snapshot |-> "snapshot", browser_scroll |-> "scroll",
      browser_get_text |-> "getText" ]

\* the cases of executeExtensionTool that read a field of the command's result
ReadsResult ==
    { "browser_navigate", "browser_screenshot", "browser_snapshot", "browser_get_text" }

\* the text a tool returns when it succeeds, page contents left out
ToolText(name) ==
    CASE name = "browser_navigate" -> "Navigated"
      [] name = "browser_click" -> "Clicked"
      [] name = "browser_fill" -> "Filled"
      [] name = "browser_press" -> "Pressed"
      [] name = "browser_screenshot" -> "Screenshot captured"
      [] name = "browser_snapshot" -> "Page elements"
      [] name = "browser_scroll" -> "Scrolled"
      [] name = "browser_get_text" -> "Page text"
      [] name = "browser_download" -> "Downloaded"
      [] OTHER -> "Unknown tool: " \o name

Returned(text, image, waitMs) ==
    [kind |-> "return", text |-> text, image |-> image, waitMs |-> waitMs]

Thrown(text) == [kind |-> "throw", text |-> text, image |-> FALSE, waitMs |-> 0]

\* ---- JavaScript conversions used by browser_wait ----
DigitValue ==
    ("0" :> 0) @@ ("1" :> 1) @@ ("2" :> 2) @@ ("3" :> 3) @@ ("4" :> 4) @@
    ("5" :> 5) @@ ("6" :> 6) @@ ("7" :> 7) @@ ("8" :> 8) @@ ("9" :> 9)

IsDigit(ch) == ch \in DOMAIN DigitValue

NaN == [nan |-> TRUE, n |-> 0]

Num(n) == [nan |-> FALSE, n |-> n]

RECURSIVE SkipSpaces(_)
SkipSpaces(chars) ==
    IF chars # << >> /\ Head(chars) = " " THEN SkipSpaces(Tail(chars)) ELSE chars

RECURSIVE DropTrailingSpaces(_)
DropTrailingSpaces(chars) ==
    IF chars # << >> /\ chars[Len(chars)] = " "
    THEN DropTrailingSpaces(SubSeq(chars, 1, Len(chars) - 1))
    ELSE chars

RECURSIVE DigitsPrefix(_)
DigitsPrefix(chars) ==
    IF chars = << >> \/ ~IsDigit(Head(chars))
    THEN << >>
    ELSE << Head(chars) >> \o DigitsPrefix(Tail(chars))

RECURSIVE DecimalValue(_)
DecimalValue(digits) ==
    IF digits = << >>
    THEN 0
    ELSE 10 * DecimalValue(SubSeq(digits, 1, Len(digits) - 1)) + DigitValue[digits[Len(digits)]]

HasSign(chars) == chars # << >> /\ Head(chars) \in { "-", "+" }

Signed(chars, n) == IF chars # << >> /\ Head(chars) = "-" THEN 0 - n ELSE n

\* parseInt(string): leading blanks, an optional sign, then the longest run of digits
ParseInt(chars) ==
    LET t == SkipSpaces(chars)
        digits == DigitsPrefix(IF HasSign(t) THEN Tail(t) ELSE t)
    IN  IF digits = << >> THEN NaN ELSE Num(Signed(t, DecimalValue(digits)))

\* the number a string is coerced to: the whole trimmed string has to be a numeral
ToNumber(chars) ==
    LET t == DropTrailingSpaces(SkipSpaces(chars))
        u == IF HasSign(t) THEN Tail(t) ELSE t
    IN  IF t = << >> THEN Num(0)
        ELSE IF u # << >> /\ DigitsPrefix(u) = u THEN Num(Signed(t, DecimalValue(u)))
        ELSE NaN

\* the delay setTimeout uses for a given delay argument: below 1 or not a
\* number it is 1
TimerDelay(x) == IF x.nan \/ x.n < 1 THEN 1 ELSE x.n

\* `${timeMs}` of a string argument
RECURSIVE Interpolate(_)
Interpolate(chars) ==
    IF chars = << >> THEN "" ELSE Head(chars) \o Interpolate(Tail(chars))

\* truthiness of an argument: undefined and "" are falsy
TruthyArg(a) == a.present /\ a.chars # << >>

\* upper limit of the timed wait of browser_wait in executeBrowserTool
WaitCapMs == 60000

Min(a, b) == IF a <= b THEN a ELSE b

\* case "browser_wait" of executeBrowserTool, its timeMs condition
WaitDirect(args) ==
    IF TruthyArg(args.timeMs) /\ ~ParseInt(args.timeMs.chars).nan
          /\ ParseInt(args.timeMs.chars).n > 0
    THEN LET ms == Min(ParseInt(args.timeMs.chars).n, WaitCapMs)
         IN  Returned("Waited " \o ToString(ms) \o "ms", FALSE, ms)
    ELSE Returned("Wait completed", FALSE, 0)

\* case "browser_wait" of executeExtensionTool
WaitExtension(args) ==
    IF TruthyArg(args.timeMs)
    THEN Returned("Waited " \o Interpolate(args.timeMs.chars) \o "ms", FALSE,
                  TimerDelay(ToNumber(args.timeMs.chars)))
    ELSE Returned("Waited", FALSE, 0)

\* what the cases of executeBrowserTool return on the local browser
ToolReturns(call) ==
    IF call.name = "browser_wait"
    THEN { WaitDirect(call.arguments) }
    ELSE { Returned(ToolText(call.name), call.name = "browser_screenshot", 0) }

\* what startBrowser, getPage and the page operations of a tool may throw
ToolThrows == { Thrown(m) : m \in ToolErrors }

\* the sendExtCommand call a dispatch made, 0 if it made none
CallOf(d) == d.ref

\* executeExtensionTool(name, args) once the promise of its command, if it
\* sent one, is settled
ExtensionOutcomes(call, ref) ==
    IF call.name \in DOMAIN ExtCommand
    THEN IF calls[ref].state = "pending" THEN {}
         ELSE IF calls[ref].state = "rejected" THEN { Thrown(calls[ref].value) }
         ELSE IF call.name \in ReadsResult /\ calls[ref].value = Undefined
         THEN { Thrown("Cannot read properties of undefined") }
         ELSE { Returned(ToolText(call.name), call.name = "browser_screenshot", 0) }
    ELSE IF call.name = "browser_wait"
    THEN { WaitExtension(call.arguments) }
    ELSE { Returned("Unknown tool: " \o call.name, FALSE, 0) }

\* executeBrowserTool(name, args): how the call handed over last may settle
ExecOutcomes(call) ==
    IF browserMode = "extension"
    THEN ExtensionOutcomes(call, CallOf(dispatchLog[Len(dispatchLog)]))
    ELSE ToolReturns(call) \cup ToolThrows

NoOutcome == [kind |-> "none", text |-> "", image |-> FALSE, waitMs |-> 0]

ImageBlock == [type |-> "image"]

ResultText(t) == [type |-> "text", text |-> t]

\* variant: the catch branch labels the result with the id of the turn's first call
ToolResultMessage_FirstCallId(call, o) ==
    IF o.kind = "return"
    THEN [ role |-> "toolResult", toolCallId |-> call.id, toolName |-> call.name,
           content |-> IF o.image THEN << ResultText(o.text), ImageBlock >>
                                  ELSE << ResultText(o.text) >>,
           isError |-> FALSE ]
    ELSE [ role |-> "toolResult", toolCallId |-> toolCalls[1].id, toolName |-> call.name,
           content |-> << ResultText("Error: " \o o.text) >>,
           isError |-> TRUE ]

\* the toolResult pushed after executeBrowserTool settled (try and catch branch)
ToolResultMessage(call, o) ==
    IF o.kind = "return"
    THEN [ role |-> "toolResult", toolCallId |-> call.id, toolName |-> call.name,
           content |-> IF o.image THEN << ResultText(o.text), ImageBlock >>
                                  ELSE << ResultText(o.text) >>,
           isError |-> FALSE ]
    ELSE [ role |-> "toolResult", toolCallId |-> call.id, toolName |-> call.name,
           content |-> << ResultText("Error: " \o o.text) >>,
           isError |-> TRUE ]

(***************************************************************************)
(* runAgent                                                                *)
(***************************************************************************)
InitAgent ==
    /\ maxTurns \in 0..MaxTurns
    /\ messages = << MissionMessage >>
    /\ turn = 0
    /\ pc = "loopTop"
    /\ toolCalls = << >>
    /\ callIdx = 0
    /\ modelCalls = 0
    /\ dispatchLog = << >>
    /\ lastOutcome = NoOutcome
    /\ modelError = "none"
    /\ console = << >>

\* for (let turn = 0; turn < maxTurns; ...): the test succeeds, streamSimple is called
BeginTurn ==
    /\ pc = "loopTop"
    /\ turn < maxTurns
    /\ modelCalls' = modelCalls + 1
    /\ pc' = "awaitModel"
    /\ UNCHANGED <<messages, maxTurns, turn, toolCalls, callIdx, dispatchLog,
                   lastOutcome, modelError, console>>
    /\ UNCHANGED <<webVars, chanVars, toolVars, pageVars, orchVars, botVars, localVars,
                 mainVars, actVars, dashVars>>

\* the loop test fails: the for loop ends and runAgent returns
LoopExhausted ==
    /\ pc = "loopTop"
    /\ ~(turn < maxTurns)
    /\ pc' = "returned"
    /\ UNCHANGED <<messages, maxTurns, turn, toolCalls, callIdx, modelCalls,
                   dispatchLog, lastOutcome, modelError, console>>
    /\ UNCHANGED <<webVars, chanVars, toolVars, pageVars, orchVars, botVars, localVars,
                 mainVars, actVars, dashVars>>

\* variant: the catch block goes on with the next turn instead of leaving the loop
ModelFails_Continue(m) ==
    /\ pc = "awaitModel"
    /\ modelError' = m
    /\ console' = Append(console, [line |-> "Error", text |-> m])
    /\ turn' = turn + 1
    /\ pc' = "loopTop"
    /\ UNCHANGED <<messages, maxTurns, toolCalls, callIdx, modelCalls,
                   dispatchLog, lastOutcome>>
    /\ UNCHANGED <<webVars, chanVars, toolVars, pageVars, orchVars, botVars, localVars,
                 mainVars, actVars, dashVars>>

\* the stream or s.result() rejects: catch, print, break
ModelFails(m) ==
    /\ pc = "awaitModel"
    /\ modelError' = m
    /\ console' = Append(console, [line |-> "Error", text |-> m])
    /\ pc' = "returned"
    /\ UNCHANGED <<messages, maxTurns, turn, toolCalls, callIdx, modelCalls,
                   dispatchLog, lastOutcome>>
    /\ UNCHANGED <<webVars, chanVars, toolVars, pageVars, orchVars, botVars, localVars,
                 mainVars, actVars, dashVars>>

\* variant: the tool calls are executed last-emitted first
ModelResponds_Reversed(response) ==
    /\ pc = "awaitModel"
    /\ Len(dispatchLog) + Len(FilterToolCalls(response.content)) <= MaxToolCalls
    /\ LET filtered == FilterToolCalls(response.content)
           pushed == Append(messages, response)
       IN  IF Len(filtered) = 0
           THEN IF HasText(response.content)
                THEN /\ messages' = pushed
                     /\ console' = Append(console, [line |-> "MissionComplete", text |-> ""])
                     /\ pc' = "returned"
                     /\ UNCHANGED <<turn, toolCalls, callIdx>>
                ELSE /\ messages' = Append(pushed, NudgeMessage)
                     /\ turn' = turn + 1
                     /\ pc' = "loopTop"
                     /\ UNCHANGED <<console, toolCalls, callIdx>>
           ELSE /\ messages' = pushed
                /\ toolCalls' = [i \in 1..Len(filtered) |-> filtered[Len(filtered) + 1 - i]]
                /\ callIdx' = 1
                /\ pc' = "toolLoop"
                /\ UNCHANGED <<turn, console>>
    /\ UNCHANGED <<maxTurns, modelCalls, dispatchLog, lastOutcome, modelError>>
    /\ UNCHANGED <<webVars, chanVars, toolVars, pageVars, orchVars, botVars, localVars,
                 mainVars, actVars, dashVars>>

\* variant: no break after a text-only answer, the loop goes on to the next turn
ModelResponds_NoBreak(response) ==
    /\ pc = "awaitModel"
    /\ Len(dispatchLog) + Len(FilterToolCalls(response.content)) <= MaxToolCalls
    /\ LET filtered == FilterToolCalls(response.content)
           pushed == Append(messages, response)
       IN  IF Len(filtered) = 0
           THEN IF HasText(response.content)
                THEN /\ messages' = pushed
                     /\ console' = Append(console, [line |-> "MissionComplete", text |-> ""])
                     /\ turn' = turn + 1
                     /\ pc' = "loopTop"
                     /\ UNCHANGED <<toolCalls, callIdx>>
                ELSE /\ messages' = Append(pushed, NudgeMessage)
                     /\ turn' = turn + 1
                     /\ pc' = "loopTop"
                     /\ UNCHANGED <<console, toolCalls, callIdx>>
           ELSE /\ messages' = pushed
                /\ toolCalls' = filtered
                /\ callIdx' = 1
                /\ pc' = "toolLoop"
                /\ UNCHANGED <<turn, console>>
    /\ UNCHANGED <<maxTurns, modelCalls, dispatchLog, lastOutcome, modelError>>
    /\ UNCHANGED <<webVars, chanVars, toolVars, pageVars, orchVars, botVars, localVars,
                 mainVars, actVars, dashVars>>

\* variant: an empty answer is retried within the same turn (turn is not advanced)
ModelResponds_RetrySameTurn(response) ==
    /\ pc = "awaitModel"
    /\ Len(dispatchLog) + Len(FilterToolCalls(response.content)) <= MaxToolCalls
    /\ LET filtered == FilterToolCalls(response.content)
           pushed == Append(messages, response)
       IN  IF Len(filtered) = 0
           THEN IF HasText(response.content)
                THEN /\ messages' = pushed
                     /\ console' = Append(console, [line |-> "MissionComplete", text |-> ""])
                     /\ pc' = "returned"
                     /\ UNCHANGED <<turn, toolCalls, callIdx>>
                ELSE /\ messages' = Append(pushed, NudgeMessage)
                     /\ pc' = "loopTop"
                     /\ UNCHANGED <<turn, console, toolCalls, callIdx>>
           ELSE /\ messages' = pushed
                /\ toolCalls' = filtered
                /\ callIdx' = 1
                /\ pc' = "toolLoop"
                /\ UNCHANGED <<turn, console>>
    /\ UNCHANGED <<maxTurns, modelCalls, dispatchLog, lastOutcome, modelError>>
    /\ UNCHANGED <<webVars, chanVars, toolVars, pageVars, orchVars, botVars, localVars,
                 mainVars, actVars, dashVars>>

\* s.result() resolves: push the response, then branch on its tool calls
ModelResponds(response) ==
    /\ pc = "awaitModel"
    /\ Len(dispatchLog) + Len(FilterToolCalls(response.content)) <= MaxToolCalls
    /\ LET filtered == FilterToolCalls(response.content)
           pushed == Append(messages, response)
       IN  IF Len(filtered) = 0
           THEN IF HasText(response.content)
                THEN /\ messages' = pushed
                     /\ console' = Append(console, [line |-> "MissionComplete", text |-> ""])
                     /\ pc' = "returned"
                     /\ UNCHANGED <<turn, toolCalls, callIdx>>
                ELSE /\ messages' = Append(pushed, NudgeMessage)
                     /\ turn' = turn + 1
                     /\ pc' = "loopTop"
                     /\ UNCHANGED <<console, toolCalls, callIdx>>
           ELSE /\ messages' = pushed
                /\ toolCalls' = filtered
                /\ callIdx' = 1
                /\ pc' = "toolLoop"
                /\ UNCHANGED <<turn, console>>
    /\ UNCHANGED <<maxTurns, modelCalls, dispatchLog, lastOutcome, modelError>>
    /\ UNCHANGED <<webVars, chanVars, toolVars, pageVars, orchVars, botVars, localVars,
                 mainVars, actVars, dashVars>>

\* the tool of a call sends a command: extension mode, a case that calls sendExtCommand
SendsCommand(call) == browserMode = "extension" /\ call.name \in DOMAIN ExtCommand

\* for (const call of toolCalls): the next call is handed to executeBrowserTool,
\* which runs up to its first await; in extension mode that is sendExtCommand
DispatchTool ==
    /\ pc = "toolLoop"
    /\ callIdx <= Len(toolCalls)
    /\ IF SendsCommand(toolCalls[callIdx])
       THEN /\ Len(calls) < MaxCalls
            /\ SendExtCommandBody(ExtCommand[toolCalls[callIdx].name])
            /\ dispatchLog' = Append(dispatchLog,
                                     [turn |-> turn, idx |-> callIdx,
                                      call |-> toolCalls[callIdx], ref |-> Len(calls) + 1])
       ELSE /\ dispatchLog' = Append(dispatchLog,
                                     [turn |-> turn, idx |-> callIdx,
                                      call |-> toolCalls[callIdx], ref |-> 0])
            /\ UNCHANGED chanVars
    /\ pc' = "awaitTool"
    /\ UNCHANGED <<messages, maxTurns, turn, toolCalls, callIdx, modelCalls,
                   lastOutcome, modelError, console>>
    /\ UNCHANGED <<webVars, toolVars, pageVars, orchVars, botVars, localVars,
                 mainVars, actVars, dashVars>>

\* variant: no try/catch around executeBrowserTool, a throw leaves runAgent
FinishTool_Uncaught ==
    /\ pc = "awaitTool"
    /\ \E o \in ExecOutcomes(toolCalls[callIdx]) :
          /\ lastOutcome' = o
          /\ IF o.kind = "throw"
             THEN /\ pc' = "threw"
                  /\ UNCHANGED <<messages, callIdx>>
             ELSE /\ messages' = Append(messages, ToolResultMessage(toolCalls[callIdx], o))
                  /\ callIdx' = callIdx + 1
                  /\ pc' = "toolLoop"
    /\ UNCHANGED <<maxTurns, turn, toolCalls, modelCalls, dispatchLog, modelError, console>>
    /\ LocalBrowserOfTool
    /\ UNCHANGED <<webVars, chanVars, toolVars, pageVars, orchVars, botVars,
                 mainVars, actVars, dashVars>>

\* variant: the toolResult replaces the last message instead of being pushed
FinishTool_OverwritesLast ==
    /\ pc = "awaitTool"
    /\ \E o \in ExecOutcomes(toolCalls[callIdx]) :
          /\ messages' = [messages EXCEPT ![Len(messages)] =
                                          ToolResultMessage(toolCalls[callIdx], o)]
          /\ lastOutcome' = o
    /\ callIdx' = callIdx + 1
    /\ pc' = "toolLoop"
    /\ UNCHANGED <<maxTurns, turn, toolCalls, modelCalls, dispatchLog, modelError, console>>
    /\ LocalBrowserOfTool
    /\ UNCHANGED <<webVars, chanVars, toolVars, pageVars, orchVars, botVars,
                 mainVars, actVars, dashVars>>

\* await executeBrowserTool(...) settles: push the toolResult, go on with the loop
FinishTool ==
    /\ pc = "awaitTool"
    /\ \E o \in ExecOutcomes(toolCalls[callIdx]) :
          /\ messages' = Append(messages, ToolResultMessage(toolCalls[callIdx], o))
          /\ lastOutcome' = o
    /\ callIdx' = callIdx + 1
    /\ pc' = "toolLoop"
    /\ UNCHANGED <<maxTurns, turn, toolCalls, modelCalls, dispatchLog, modelError, console>>
    /\ LocalBrowserOfTool
    /\ UNCHANGED <<webVars, chanVars, toolVars, pageVars, orchVars, botVars,
                 mainVars, actVars, dashVars>>

\* variant: a turn that executed tools is not counted
EndTurn_KeepsTurn ==
    /\ pc = "toolLoop"
    /\ callIdx > Len(toolCalls)
    /\ pc' = "loopTop"
    /\ UNCHANGED <<messages, maxTurns, turn, toolCalls, callIdx, modelCalls, dispatchLog,
                   lastOutcome, modelError, console>>
    /\ UNCHANGED <<webVars, chanVars, toolVars, pageVars, orchVars, botVars, localVars,
                 mainVars, actVars, dashVars>>

\* the for-of loop is through: end of the loop body, turn++
EndTurn ==
    /\ pc = "toolLoop"
    /\ callIdx > Len(toolCalls)
    /\ turn' = turn + 1
    /\ pc' = "loopTop"
    /\ UNCHANGED <<messages, maxTurns, toolCalls, callIdx, modelCalls, dispatchLog,
                   lastOutcome, modelError, console>>
    /\ UNCHANGED <<webVars, chanVars, toolVars, pageVars, orchVars, botVars, localVars,
                 mainVars, actVars, dashVars>>

\* main: await runAgent(...) in try/catch, then shut down and process.exit(0)
MainFinish ==
    /\ pc \in {"returned", "threw"}
    /\ console' = IF pc = "threw"
                  THEN Append(console, [line |-> "Error", text |-> "uncaught"])
                  ELSE console
    /\ pc' = "exited"
    /\ UNCHANGED <<messages, maxTurns, turn, toolCalls, callIdx, modelCalls,
                   dispatchLog, lastOutcome, modelError>>
    /\ LocalBrowserOfExit
    /\ StopExtensionServerAtExit
    /\ exitStatus' = "exit0"
    /\ UNCHANGED <<webVars, toolVars, pageVars, orchVars, botVars, actVars, dashVars>>

(***************************************************************************)
(* Web dashboard: the stop flag (web-client.ts) and the loop of a          *)
(* dashboard task that reads it.                                           *)
(***************************************************************************)
TaskIds == { "task-1", "task-2" }

\* the task the modelled run belongs to
RunTaskId == "task-1"

InitWeb ==
    /\ stoppedTasks = {}
    /\ lastCtl = [t \in TaskIds |-> "none"]

\* variant: the stopTask message is logged but the flag is not set
StopTask_NotRecorded(taskId) ==
    /\ stoppedTasks' = stoppedTasks
    /\ lastCtl' = [lastCtl EXCEPT ![taskId] = "stopTask"]
    /\ UNCHANGED <<agentVars, chanVars, toolVars, pageVars, orchVars, botVars, localVars,
                 mainVars, actVars, dashVars>>

\* ws message { type: "stopTask", taskId }
StopTask(taskId) ==
    /\ stoppedTasks' = stoppedTasks \cup {taskId}
    /\ lastCtl' = [lastCtl EXCEPT ![taskId] = "stopTask"]
    /\ UNCHANGED <<agentVars, chanVars, toolVars, pageVars, orchVars, botVars, localVars,
                 mainVars, actVars, dashVars>>

\* ws message { type: "deleteTask", taskId }
DeleteTask(taskId) ==
    /\ stoppedTasks' = stoppedTasks \ {taskId}
    /\ lastCtl' = [lastCtl EXCEPT ![taskId] = "deleteTask"]
    /\ UNCHANGED <<agentVars, chanVars, toolVars, pageVars, orchVars, botVars, localVars,
                 mainVars, actVars, dashVars>>

\* the check a dashboard task's loop makes at the top of each turn
IsStopped(taskId) == taskId \in stoppedTasks

\* top of a turn of a dashboard task, flag not set: the turn starts as in runAgent
BeginTurnWeb ==
    /\ ~IsStopped(RunTaskId)
    /\ BeginTurn

\* top of a turn of a dashboard task, flag set: the loop ends without a model call
ObserveStop ==
    /\ pc = "loopTop"
    /\ IsStopped(RunTaskId)
    /\ pc' = "returned"
    /\ console' = Append(console, [line |-> "Stopped", text |-> ""])
    /\ UNCHANGED <<messages, maxTurns, turn, toolCalls, callIdx, modelCalls,
                   dispatchLog, lastOutcome, modelError>>
    /\ UNCHANGED <<webVars, chanVars, toolVars, pageVars, orchVars, botVars, localVars,
                 mainVars, actVars, dashVars>>

(***************************************************************************)
(* One executeBrowserTool call on the local browser (cli.ts 2243-2430):    *)
(* the cases browser_click, browser_fill, browser_wait and                 *)
(* browser_download, statement by statement.                               *)
(***************************************************************************)
\* args of a call
OpArgs(timeMs, text, textGone, selector, filename) ==
    [timeMs |-> timeMs, text |-> text, textGone |-> textGone,
     selector |-> selector, filename |-> filename]

NoOp == [name |-> "none", args |-> OpArgs(NoArg, NoArg, NoArg, NoArg, NoArg)]

\* the characters \w matches
WordChars ==
    {
      "a", "b", "c", "d", "e", "f", "g", "h", "i", "j", "k", "l", "m", "n",
      "o", "p", "q", "r", "s", "t", "u", "v", "w", "x", "y", "z", "A", "B",
      "C", "D", "E", "F", "G", "H", "I", "J", "K", "L", "M", "N", "O", "P",
      "Q", "R", "S", "T", "U", "V", "W", "X", "Y", "Z", "0", "1", "2", "3",
      "4", "5", "6", "7", "8", "9", "_"
    }

\* /^\w+$/
IsWord(chars) == chars # << >> /\ \A i \in 1..Len(chars) : chars[i] \in WordChars

\* the longest run of \w characters a string starts with
RECURSIVE WordPrefix(_)
WordPrefix(chars) ==
    IF chars = << >> \/ Head(chars) \notin WordChars
    THEN << >>
    ELSE << Head(chars) >> \o WordPrefix(Tail(chars))

\* /^(\w+):"([^"]*)"$/
RoleMatch(chars) ==
    LET role == WordPrefix(chars)
        rest == SubSeq(chars, Len(role) + 1, Len(chars))
    IN  /\ role # << >>
        /\ Len(rest) >= 3
        /\ rest[1] = ":"
        /\ rest[2] = "\""
        /\ rest[Len(rest)] = "\""
        /\ \A i \in 3..(Len(rest) - 1) : rest[i] # "\""

\* the three lookups of the click, fill and download cases
Lookups == { "getByRoleName", "getByRole", "locator" }

\* if (roleMatch) ... else if (selector.match(/^\w+$/)) ... else ...
Lookup(chars) ==
    IF RoleMatch(chars) THEN "getByRoleName"
    ELSE IF IsWord(chars) THEN "getByRole"
    ELSE "locator"

\* download.suggestedFilename()
SuggestedName == "report.pdf"

\* results.join(", ")
RECURSIVE Join(_)
Join(strs) ==
    IF strs = << >> THEN ""
    ELSE IF Len(strs) = 1 THEN strs[1]
    ELSE strs[1] \o ", " \o Join(Tail(strs))

\* the conditions of browser_wait in the order of the case
WaitNames == << "timeMs", "text", "textGone", "selector" >>

\* the if in front of each condition
WaitApplies(k) ==
    CASE k = 1 -> /\ TruthyArg(op.args.timeMs)
                  /\ ~ParseInt(op.args.timeMs.chars).nan
                  /\ ParseInt(op.args.timeMs.chars).n > 0
      [] k = 2 -> TruthyArg(op.args.text)
      [] k = 3 -> TruthyArg(op.args.textGone)
      [] k = 4 -> TruthyArg(op.args.selector)

\* const ms = Math.min(parseInt(timeMs), 60000)
WaitMs == Min(ParseInt(op.args.timeMs.chars).n, WaitCapMs)

\* what each condition pushes to results
WaitEntry(k) ==
    CASE k = 1 -> "Waited " \o ToString(WaitMs) \o "ms"
      [] k = 2 -> "Text \"" \o Interpolate(op.args.text.chars) \o "\" appeared"
      [] k = 3 -> "Text \"" \o Interpolate(op.args.textGone.chars) \o "\" disappeared"
      [] k = 4 -> "Element \"" \o Interpolate(op.args.selector.chars) \o "\" visible"

PageEvent(ev, what) == [ev |-> ev, what |-> what]

\* no call runs on the page
InitPageIdle ==
    /\ op = NoOp
    /\ opc = "idle"
    /\ stage = 1
    /\ results = << >>
    /\ pageLog = << >>
    /\ opOutcome = NoOutcome
    /\ page = [finds |-> {}, downloads |-> FALSE]
    /\ armed = FALSE
    /\ downloadEvent = "none"
    /\ savedAs = "none"

\* if (!browser) await startBrowser(); const page = await getPage(); switch (name)
GetPage ==
    /\ opc = "begin"
    /\ opc' = CASE op.name = "browser_wait" -> "test"
                [] op.name = "browser_download" -> "arm"
                [] OTHER -> "locate"
    /\ UNCHANGED <<op, stage, results, pageLog, opOutcome, page, armed,
                   downloadEvent, savedAs>>
    /\ UNCHANGED <<agentVars, webVars, chanVars, toolVars, orchVars, botVars, localVars,
                 mainVars, actVars, dashVars>>

\* startBrowser or getPage throws
GetPageFails ==
    /\ opc = "begin"
    /\ \E m \in ToolErrors : opOutcome' = Thrown(m)
    /\ opc' = "settled"
    /\ UNCHANGED <<op, stage, results, pageLog, page, armed, downloadEvent, savedAs>>
    /\ UNCHANGED <<agentVars, webVars, chanVars, toolVars, orchVars, botVars, localVars,
                 mainVars, actVars, dashVars>>

\* browser_wait: the if of the next condition; when it holds the page wait is started
WaitTest ==
    /\ opc = "test"
    /\ stage <= Len(WaitNames)
    /\ IF WaitApplies(stage)
       THEN /\ pageLog' = Append(pageLog, PageEvent("start", WaitNames[stage]))
            /\ opc' = "await"
            /\ UNCHANGED stage
       ELSE /\ stage' = stage + 1
            /\ UNCHANGED <<pageLog, opc>>
    /\ UNCHANGED <<op, results, opOutcome, page, armed, downloadEvent, savedAs>>
    /\ UNCHANGED <<agentVars, webVars, chanVars, toolVars, orchVars, botVars, localVars,
                 mainVars, actVars, dashVars>>

\* variant: results.unshift instead of results.push
WaitResolves_Unshift ==
    /\ opc = "await"
    /\ results' = << WaitEntry(stage) >> \o results
    /\ pageLog' = Append(pageLog, PageEvent("done", WaitNames[stage]))
    /\ stage' = stage + 1
    /\ opc' = "test"
    /\ UNCHANGED <<op, opOutcome, page, armed, downloadEvent, savedAs>>
    /\ UNCHANGED <<agentVars, webVars, chanVars, toolVars, orchVars, botVars, localVars,
                 mainVars, actVars, dashVars>>

\* browser_wait: the awaited page wait resolves, results.push(...)
WaitResolves ==
    /\ opc = "await"
    /\ results' = Append(results, WaitEntry(stage))
    /\ pageLog' = Append(pageLog, PageEvent("done", WaitNames[stage]))
    /\ stage' = stage + 1
    /\ opc' = "test"
    /\ UNCHANGED <<op, opOutcome, page, armed, downloadEvent, savedAs>>
    /\ UNCHANGED <<agentVars, webVars, chanVars, toolVars, orchVars, botVars, localVars,
                 mainVars, actVars, dashVars>>

\* browser_wait: the awaited page wait rejects (its timeout passed, the page
\* closed); the rejection leaves the case
WaitRejects ==
    /\ opc = "await"
    /\ \E m \in ToolErrors : opOutcome' = Thrown(m)
    /\ pageLog' = Append(pageLog, PageEvent("fail", WaitNames[stage]))
    /\ opc' = "settled"
    /\ UNCHANGED <<op, stage, results, page, armed, downloadEvent, savedAs>>
    /\ UNCHANGED <<agentVars, webVars, chanVars, toolVars, orchVars, botVars, localVars,
                 mainVars, actVars, dashVars>>

\* browser_wait: return { text: results.length > 0 ? results.join(", ") : "Wait completed" }
WaitReturn ==
    /\ opc = "test"
    /\ stage > Len(WaitNames)
    /\ opOutcome' = Returned(IF Len(results) > 0 THEN Join(results) ELSE "Wait completed",
                             FALSE, IF WaitApplies(1) THEN WaitMs ELSE 0)
    /\ opc' = "settled"
    /\ UNCHANGED <<op, stage, results, pageLog, page, armed, downloadEvent, savedAs>>
    /\ UNCHANGED <<agentVars, webVars, chanVars, toolVars, orchVars, botVars, localVars,
                 mainVars, actVars, dashVars>>

\* the action the case performs on the element it looked up
ActionOf(name) == IF name = "browser_fill" THEN "fill" ELSE "click"

\* variant: the download wait is set up only after the click resolved
DownloadArm_AfterClick ==
    /\ \/ /\ opc = "arm"
          /\ opc' = "locate"
          /\ UNCHANGED <<armed, pageLog>>
       \/ /\ opc = "awaitDownload"
          /\ ~armed
          /\ armed' = TRUE
          /\ pageLog' = Append(pageLog, PageEvent("arm", "download"))
          /\ UNCHANGED opc
    /\ UNCHANGED <<op, stage, results, opOutcome, page, downloadEvent, savedAs>>
    /\ UNCHANGED <<agentVars, webVars, chanVars, toolVars, orchVars, botVars, localVars,
                 mainVars, actVars, dashVars>>

\* browser_download: const downloadPromise = page.waitForEvent("download", ...)
DownloadArm ==
    /\ opc = "arm"
    /\ armed' = TRUE
    /\ pageLog' = Append(pageLog, PageEvent("arm", "download"))
    /\ opc' = "locate"
    /\ UNCHANGED <<op, stage, results, opOutcome, page, downloadEvent, savedAs>>
    /\ UNCHANGED <<agentVars, webVars, chanVars, toolVars, orchVars, botVars, localVars,
                 mainVars, actVars, dashVars>>

\* click, fill, download: selector.match(...) picks the lookup and the action on
\* its first element is started; selector.match throws when selector is undefined
StartAction ==
    /\ opc = "locate"
    /\ IF op.args.selector.present
       THEN /\ pageLog' = pageLog \o
                          << PageEvent("lookup", Lookup(op.args.selector.chars)),
                             PageEvent(ActionOf(op.name), Lookup(op.args.selector.chars)) >>
            /\ opc' = "acting"
            /\ UNCHANGED opOutcome
       ELSE /\ opOutcome' = Thrown("Cannot read properties of undefined")
            /\ opc' = "settled"
            /\ UNCHANGED pageLog
    /\ UNCHANGED <<op, stage, results, page, armed, downloadEvent, savedAs>>
    /\ UNCHANGED <<agentVars, webVars, chanVars, toolVars, orchVars, botVars, localVars,
                 mainVars, actVars, dashVars>>

\* the text the click and fill cases return
ActionText ==
    IF op.name = "browser_fill"
    THEN "Filled \"" \o Interpolate(op.args.text.chars) \o "\" into "
             \o Interpolate(op.args.selector.chars)
    ELSE "Clicked: " \o Interpolate(op.args.selector.chars)

\* the lookup found an element and the action on it resolves
ActionResolves ==
    /\ opc = "acting"
    /\ Lookup(op.args.selector.chars) \in page.finds
    /\ IF op.name = "browser_download"
       THEN /\ opc' = "awaitDownload"
            /\ UNCHANGED opOutcome
       ELSE /\ opOutcome' = Returned(ActionText, FALSE, 0)
            /\ opc' = "settled"
    /\ UNCHANGED <<op, stage, results, pageLog, page, armed, downloadEvent, savedAs>>
    /\ UNCHANGED <<agentVars, webVars, chanVars, toolVars, orchVars, botVars, localVars,
                 mainVars, actVars, dashVars>>

\* the lookup finds no element: the action times out and rejects
ActionRejects ==
    /\ opc = "acting"
    /\ Lookup(op.args.selector.chars) \notin page.finds
    /\ \E m \in ToolErrors : opOutcome' = Thrown(m)
    /\ opc' = "settled"
    /\ UNCHANGED <<op, stage, results, pageLog, page, armed, downloadEvent, savedAs>>
    /\ UNCHANGED <<agentVars, webVars, chanVars, toolVars, orchVars, botVars, localVars,
                 mainVars, actVars, dashVars>>

\* the page: the click on the element starts a download, at once or later; the
\* event reaches the waiter if one is set up
DownloadStarts ==
    /\ op.name = "browser_download"
    /\ opc \in { "acting", "awaitDownload" }
    /\ Lookup(op.args.selector.chars) \in page.finds
    /\ page.downloads
    /\ downloadEvent = "none"
    /\ downloadEvent' = IF armed THEN "captured" ELSE "missed"
    /\ UNCHANGED <<op, opc, stage, results, pageLog, opOutcome, page, armed, savedAs>>
    /\ UNCHANGED <<agentVars, webVars, chanVars, toolVars, orchVars, botVars, localVars,
                 mainVars, actVars, dashVars>>

\* browser_download: const download = await downloadPromise
DownloadResolves ==
    /\ opc = "awaitDownload"
    /\ downloadEvent = "captured"
    /\ armed' = FALSE
    /\ opc' = "save"
    /\ UNCHANGED <<op, stage, results, pageLog, opOutcome, page, downloadEvent, savedAs>>
    /\ UNCHANGED <<agentVars, webVars, chanVars, toolVars, orchVars, botVars, localVars,
                 mainVars, actVars, dashVars>>

\* browser_download: no download event reached the waiter within its timeout
DownloadTimesOut ==
    /\ opc = "awaitDownload"
    /\ downloadEvent # "captured"
    /\ \E m \in ToolErrors : opOutcome' = Thrown(m)
    /\ armed' = FALSE
    /\ opc' = "settled"
    /\ UNCHANGED <<op, stage, results, pageLog, page, downloadEvent, savedAs>>
    /\ UNCHANGED <<agentVars, webVars, chanVars, toolVars, orchVars, botVars, localVars,
                 mainVars, actVars, dashVars>>

\* a || b of two strings
OrElse(a, b) == IF a # "" THEN a ELSE b

\* const filename = args.filename as string || "download"
Filename ==
    OrElse(IF op.args.filename.present THEN Interpolate(op.args.filename.chars) ELSE "",
           "download")

\* browser_download: savePath = path.join(downloadDir, filename || suggestedName),
\* download.saveAs(savePath), return
DownloadSave ==
    /\ opc = "save"
    /\ savedAs' = OrElse(Filename, SuggestedName)
    /\ opOutcome' = Returned("Downloaded: " \o savedAs' \o " (" \o SuggestedName \o ")",
                             FALSE, 0)
    /\ opc' = "settled"
    /\ UNCHANGED <<op, stage, results, pageLog, page, armed, downloadEvent>>
    /\ UNCHANGED <<agentVars, webVars, chanVars, toolVars, orchVars, botVars, localVars,
                 mainVars, actVars, dashVars>>

(***************************************************************************)
(* Parallel orchestrator, runAll(sessions, missions) (spec section 4.4).   *)
(***************************************************************************)
\* largest number of sessions of a batch
MaxSessions == 2

\* largest number of missions of a batch
MaxMissions == 3

\* the mission strings, m_0 first
MissionNames == [i \in 1..(MaxMissions + 1) |-> "m" \o ToString(i - 1)]

NoReport == [done |-> FALSE, outcomes |-> << >>, fulfilled |-> 0, rejected |-> 0]

Settled == { "fulfilled", "rejected" }

\* (session, mission string, ordinal index)
TaskAssignment(session, mission, index) ==
    [session |-> session, mission |-> mission, index |-> index]

\* variant: every mission goes to the first session
Assign_FirstSession ==
    /\ orchPc = "assign"
    /\ assignments' = [i \in 1..Len(missionList) |->
                          TaskAssignment(0, missionList[i], i - 1)]
    /\ orchPc' = "launch"
    /\ UNCHANGED <<nSessions, missionList, taskState, report>>
    /\ UNCHANGED <<agentVars, webVars, chanVars, toolVars, pageVars, botVars, localVars,
                 mainVars, actVars, dashVars>>

\* the assignments are computed up front: mission i goes to session i mod sessions.length
Assign ==
    /\ orchPc = "assign"
    /\ assignments' = [i \in 1..Len(missionList) |->
                          TaskAssignment((i - 1) % nSessions, missionList[i], i - 1)]
    /\ orchPc' = "launch"
    /\ UNCHANGED <<nSessions, missionList, taskState, report>>
    /\ UNCHANGED <<agentVars, webVars, chanVars, toolVars, pageVars, botVars, localVars,
                 mainVars, actVars, dashVars>>

\* all assigned (session, mission) pairs are launched concurrently
Launch ==
    /\ orchPc = "launch"
    /\ taskState' = [i \in 1..Len(assignments) |-> "running"]
    /\ orchPc' = "wait"
    /\ UNCHANGED <<nSessions, missionList, assignments, report>>
    /\ UNCHANGED <<agentVars, webVars, chanVars, toolVars, pageVars, botVars, localVars,
                 mainVars, actVars, dashVars>>

\* the agent loop of a task starts a browser action on the task's session
TaskActs(i) ==
    /\ i \in 1..Len(taskState)
    /\ taskState[i] = "running"
    /\ taskState' = [taskState EXCEPT ![i] = "acting"]
    /\ UNCHANGED <<orchPc, nSessions, missionList, assignments, report>>
    /\ UNCHANGED <<agentVars, webVars, chanVars, toolVars, pageVars, botVars, localVars,
                 mainVars, actVars, dashVars>>

\* the browser action of a task ends
TaskActionEnds(i) ==
    /\ i \in 1..Len(taskState)
    /\ taskState[i] = "acting"
    /\ taskState' = [taskState EXCEPT ![i] = "running"]
    /\ UNCHANGED <<orchPc, nSessions, missionList, assignments, report>>
    /\ UNCHANGED <<agentVars, webVars, chanVars, toolVars, pageVars, botVars, localVars,
                 mainVars, actVars, dashVars>>

\* the agent loop of a task returns
TaskFulfils(i) ==
    /\ i \in 1..Len(taskState)
    /\ taskState[i] = "running"
    /\ taskState' = [taskState EXCEPT ![i] = "fulfilled"]
    /\ UNCHANGED <<orchPc, nSessions, missionList, assignments, report>>
    /\ UNCHANGED <<agentVars, webVars, chanVars, toolVars, pageVars, botVars, localVars,
                 mainVars, actVars, dashVars>>

\* variant: a task that throws takes the tasks still running down with it
TaskRejects_CancelsSiblings(i) ==
    /\ i \in 1..Len(taskState)
    /\ taskState[i] = "running"
    /\ taskState' = [j \in 1..Len(taskState) |->
                        IF j = i \/ taskState[j] \notin Settled
                        THEN "rejected" ELSE taskState[j]]
    /\ UNCHANGED <<orchPc, nSessions, missionList, assignments, report>>
    /\ UNCHANGED <<agentVars, webVars, chanVars, toolVars, pageVars, botVars, localVars,
                 mainVars, actVars, dashVars>>

\* the agent loop of a task throws
TaskRejects(i) ==
    /\ i \in 1..Len(taskState)
    /\ taskState[i] = "running"
    /\ taskState' = [taskState EXCEPT ![i] = "rejected"]
    /\ UNCHANGED <<orchPc, nSessions, missionList, assignments, report>>
    /\ UNCHANGED <<agentVars, webVars, chanVars, toolVars, pageVars, botVars, localVars,
                 mainVars, actVars, dashVars>>

CountOf(states, what) == Cardinality({ i \in 1..Len(states) : states[i] = what })

\* every task has settled: one outcome per task, the counts of fulfilled and rejected
Aggregate ==
    /\ orchPc = "wait"
    /\ \A i \in 1..Len(taskState) : taskState[i] \in Settled
    /\ report' = [done |-> TRUE, outcomes |-> taskState,
                  fulfilled |-> CountOf(taskState, "fulfilled"),
                  rejected |-> CountOf(taskState, "rejected")]
    /\ orchPc' = "done"
    /\ UNCHANGED <<nSessions, missionList, assignments, taskState>>
    /\ UNCHANGED <<agentVars, webVars, chanVars, toolVars, pageVars, botVars, localVars,
                 mainVars, actVars, dashVars>>

(***************************************************************************)
(* Telegram bot, startTelegramBot (unnamed/part_000).                      *)
(***************************************************************************)
\* text messages and other updates handled during a run
MaxMessages == 2

\* ctx.from?.id when the update has no sender
NoUser == 0 - 1

\* the sender ids of incoming updates: none, 0, 1, 2
UserIds == { NoUser, 0, 1, 2 }

\* config.allowedUsers left out
Missing == [given |-> FALSE, ids |-> {}]

AllowedList(ids) == [given |-> TRUE, ids |-> ids]

\* the allowedUsers of the configurations explored
AllowedConfigs == { Missing, AllowedList({}), AllowedList({1}), AllowedList({0, 1}) }

\* how the onMessage callback may settle: a response, an empty response, a throw
MissionResults == { "response", "", "throws" }

\* what one handler run did
Handling(from, isText, replies, invoked) ==
    [from |-> from, isText |-> isText, replies |-> replies, invoked |-> invoked]

\* !userId: undefined and 0 are falsy
FalsyId(userId) == userId = NoUser \/ userId = 0

\* the replies after onMessage settled: the response if it is not empty, the
\* error text if it threw
MissionReplies(result) ==
    IF result = "throws" THEN << "error" >>
    ELSE IF result # "" THEN << "response" >>
    ELSE << >>

\* variant: without a list of allowed users every sender is served
OnText_OpenWhenUnset(userId, result) ==
    /\ Len(handled) < MaxMessages
    /\ handled' = Append(handled,
          IF (allowedUsers.given /\ allowedUsers.ids # {})
                /\ (FalsyId(userId) \/ userId \notin allowedUsers.ids)
          THEN Handling(userId, TRUE, << "notAllowed" >>, FALSE)
          ELSE Handling(userId, TRUE, MissionReplies(result), TRUE))
    /\ UNCHANGED allowedUsers
    /\ UNCHANGED <<agentVars, webVars, chanVars, toolVars, pageVars, orchVars, localVars,
                   mainVars, actVars, dashVars>>

\* bot.on("message:text", ...): the handler of one text message
OnText(userId, result) ==
    /\ Len(handled) < MaxMessages
    /\ handled' = Append(handled,
          IF ~allowedUsers.given \/ allowedUsers.ids = {}
          THEN Handling(userId, TRUE, << "notConfigured" >>, FALSE)
          ELSE IF FalsyId(userId) \/ userId \notin allowedUsers.ids
          THEN Handling(userId, TRUE, << "notAllowed" >>, FALSE)
          ELSE Handling(userId, TRUE, MissionReplies(result), TRUE))
    /\ UNCHANGED allowedUsers
    /\ UNCHANGED <<agentVars, webVars, chanVars, toolVars, pageVars, orchVars, localVars,
                   mainVars, actVars, dashVars>>

\* an update that is no text message: no handler is registered for it
OnOtherUpdate(userId) ==
    /\ Len(handled) < MaxMessages
    /\ handled' = Append(handled, Handling(userId, FALSE, << >>, FALSE))
    /\ UNCHANGED allowedUsers
    /\ UNCHANGED <<agentVars, webVars, chanVars, toolVars, pageVars, orchVars, localVars,
                   mainVars, actVars, dashVars>>

(***************************************************************************)
(* Actuator: the background worker of the extension (unnamed/part_001      *)
(* 25-125, 438-451).  It keeps one reference, ws, to the socket it uses;   *)
(* every handler of every socket it ever created reads and writes that     *)
(* same reference.                                                         *)
(***************************************************************************)
\* WebSockets the worker creates during a run
MaxSockets == 3
\* command messages the worker receives during a run
MaxCommands == 2

\* ws = null; a socket is its position in socks
NoSocket == 0

\* connect() at the end of the script, in onInstalled and in onStartup
StartupTriggers == { "load", "onInstalled", "onStartup" }

\* message.command: one that handleCommand has a case for, and one it has not
CommandKinds == { "known", "unknown" }

InitActuatorIdle ==
    /\ ws = NoSocket
    /\ socks = << >>
    /\ retryTimers = 0
    /\ startupDone = {}
    /\ inflight = {}
    /\ finished = << >>
    /\ sentReplies = << >>
    /\ received = 0

\* ws && ws.readyState === WebSocket.OPEN
WsOpen == ws # NoSocket /\ socks[ws] = "open"

\* function connect(): return if ws is open, otherwise ws = new WebSocket(...)
ConnectBody ==
    IF WsOpen
    THEN UNCHANGED <<ws, socks>>
    ELSE /\ Len(socks) < MaxSockets
         /\ socks' = Append(socks, "connecting")
         /\ ws' = Len(socks) + 1

\* one of the start-up triggers calls connect()
StartupConnect(trigger) ==
    /\ trigger \notin startupDone
    /\ startupDone' = startupDone \cup { trigger }
    /\ ConnectBody
    /\ UNCHANGED <<retryTimers, inflight, finished, sentReplies, received>>
    /\ UNCHANGED <<agentVars, webVars, chanVars, toolVars, pageVars, orchVars, botVars,
                   localVars, mainVars, dashVars>>

\* the keepAlive alarm: connect() unless ws is open
KeepAliveAlarm ==
    /\ startupDone # {}
    /\ IF ~WsOpen THEN ConnectBody ELSE UNCHANGED <<ws, socks>>
    /\ UNCHANGED <<retryTimers, startupDone, inflight, finished, sentReplies, received>>
    /\ UNCHANGED <<agentVars, webVars, chanVars, toolVars, pageVars, orchVars, botVars,
                   localVars, mainVars, dashVars>>

\* a setTimeout(connect, 5000) armed by some onclose runs
RetryTimerFires ==
    /\ retryTimers > 0
    /\ retryTimers' = retryTimers - 1
    /\ ConnectBody
    /\ UNCHANGED <<startupDone, inflight, finished, sentReplies, received>>
    /\ UNCHANGED <<agentVars, webVars, chanVars, toolVars, pageVars, orchVars, botVars,
                   localVars, mainVars, dashVars>>

\* the server accepts socket s: readyState becomes OPEN (onopen only sets the badge)
SocketOpens(s) ==
    /\ s \in 1..Len(socks)
    /\ socks[s] = "connecting"
    /\ socks' = [socks EXCEPT ![s] = "open"]
    /\ UNCHANGED <<ws, retryTimers, startupDone, inflight, finished, sentReplies, received>>
    /\ UNCHANGED <<agentVars, webVars, chanVars, toolVars, pageVars, orchVars, botVars,
                   localVars, mainVars, dashVars>>

\* socket s fails to connect or is closed: its onclose runs ws = null and
\* setTimeout(connect, 5000)
SocketCloses(s) ==
    /\ s \in 1..Len(socks)
    /\ socks[s] \in { "connecting", "open" }
    /\ socks' = [socks EXCEPT ![s] = "closed"]
    /\ ws' = NoSocket
    /\ retryTimers' = retryTimers + 1
    /\ UNCHANGED <<startupDone, inflight, finished, sentReplies, received>>
    /\ UNCHANGED <<agentVars, webVars, chanVars, toolVars, pageVars, orchVars, botVars,
                   localVars, mainVars, dashVars>>

\* onmessage of socket s up to its await: the frame parses, msgId = message.id,
\* handleCommand(message) is called.  The server numbers its commands 1, 2, ...
ReceiveCommand(s, kind) ==
    /\ s \in 1..Len(socks)
    /\ socks[s] = "open"
    /\ received < MaxCommands
    /\ received' = received + 1
    /\ inflight' = inflight \cup { [id |-> received + 1, sock |-> s, kind |-> kind] }
    /\ UNCHANGED <<ws, socks, retryTimers, startupDone, finished, sentReplies>>
    /\ UNCHANGED <<agentVars, webVars, chanVars, toolVars, pageVars, orchVars, botVars,
                   localVars, mainVars, dashVars>>

\* what the rest of onmessage puts on the wire.  A fulfilled handleCommand is
\* followed by ws.send({ id, result }); with ws null or still connecting that
\* send throws, and the catch sends { id, error } only if ws is open, which it
\* then is not.  A rejected handleCommand goes to the catch directly.
ReplyOf(h, ok) ==
    IF WsOpen
    THEN << [id |-> h.id, over |-> ws, kind |-> IF ok THEN "result" ELSE "error"] >>
    ELSE << >>

\* handleCommand of command h settles: fulfilled (a known command only) or
\* rejected (a failing page operation, or the default case of the switch)
HandlerFinishes(h, ok) ==
    /\ h \in inflight
    /\ ok => h.kind = "known"
    /\ inflight' = inflight \ { h }
    /\ sentReplies' = sentReplies \o ReplyOf(h, ok)
    /\ finished' = Append(finished, [id |-> h.id, sock |-> h.sock, ok |-> ok,
                                     sockOpen |-> socks[h.sock] = "open"])
    /\ UNCHANGED <<ws, socks, retryTimers, startupDone, received>>
    /\ UNCHANGED <<agentVars, webVars, chanVars, toolVars, pageVars, orchVars, botVars,
                   localVars, mainVars, dashVars>>

(***************************************************************************)
(* Dashboard page (web-client.ts 750-834, 1210-1307): the task cards the   *)
(* page keeps and the server messages that update them.                    *)
(***************************************************************************)
\* server messages sent to the page during a run
MaxServerMessages == 3

\* the messages about a task that handleMessage has a branch for
ServerMessages ==
    { [type |-> "log", status |-> ""],
      [type |-> "status", status |-> "running"],
      [type |-> "result", status |-> ""],
      [type |-> "error", status |-> ""] }

\* the task is in the map: its id was handed out ('task-' + ++taskIdCounter,
\* never twice) and the task was not deleted since
InMap(taskId) == tasks[taskId] \notin { "unused", "deleted" }

InitDashIdle ==
    /\ tasks = [t \in TaskIds |-> "unused"]
    /\ toClient = << >>

\* runTask(): the page adds the task as pending and sends { type: "run" }
RunTask(taskId) ==
    /\ tasks[taskId] = "unused"
    /\ tasks' = [tasks EXCEPT ![taskId] = "pending"]
    /\ UNCHANGED toClient
    /\ UNCHANGED <<agentVars, webVars, chanVars, toolVars, pageVars, orchVars, botVars,
                   localVars, mainVars, actVars>>

\* the server's send({ ... }) of a task it was asked to run
ServerSends(taskId, m) ==
    /\ Len(toClient) < MaxServerMessages
    /\ toClient' = Append(toClient, [taskId |-> taskId, type |-> m.type, status |-> m.status])
    /\ UNCHANGED tasks
    /\ UNCHANGED <<agentVars, webVars, chanVars, toolVars, pageVars, orchVars, botVars,
                   localVars, mainVars, actVars>>

\* the status handleMessage leaves a task of the map with
StatusAfter(status, msg) ==
    IF msg.type = "status" THEN msg.status
    ELSE IF msg.type = "result" THEN "done"
    ELSE IF msg.type = "error" THEN "error"
    ELSE status

\* ws.onmessage -> handleMessage(msg) for a message about a task
HandleMessage ==
    /\ toClient # << >>
    /\ LET msg == Head(toClient)
       IN  tasks' = IF ~InMap(msg.taskId)
                    THEN tasks
                    ELSE [tasks EXCEPT ![msg.taskId] = StatusAfter(tasks[msg.taskId], msg)]
    /\ toClient' = Tail(toClient)
    /\ UNCHANGED <<agentVars, webVars, chanVars, toolVars, pageVars, orchVars, botVars,
                   localVars, mainVars, actVars>>

\* the stop button of a running or pending card: stopTask(taskId) sends
\* { type: "stopTask" } and marks the task of the map as stopped
ClientStopTask(taskId) ==
    /\ tasks[taskId] \in { "pending", "running" }
    /\ tasks' = [tasks EXCEPT ![taskId] = "stopped"]
    /\ UNCHANGED toClient
    /\ UNCHANGED <<agentVars, webVars, chanVars, toolVars, pageVars, orchVars, botVars,
                   localVars, mainVars, actVars>>

\* the delete button of a finished card: deleteTask(taskId) sends
\* { type: "deleteTask" } and removes the task from the map
ClientDeleteTask(taskId) ==
    /\ tasks[taskId] \in { "done", "error", "stopped" }
    /\ tasks' = [tasks EXCEPT ![taskId] = "deleted"]
    /\ UNCHANGED toClient
    /\ UNCHANGED <<agentVars, webVars, chanVars, toolVars, pageVars, orchVars, botVars,
                   localVars, mainVars, actVars>>

\* main has passed its start-up (or runs in direct mode, which has none)
InitMainIdle ==
    /\ wss = FALSE
    /\ exitStatus = "running"

\* main in extension mode calls startExtensionServer(): the server is created
\* and main awaits the returned promise, which only the connection handler
\* resolves (cli.ts 1709-1747, 2838-2839)
StartExtensionServer ==
    /\ pc = "startup"
    /\ browserMode = "extension"
    /\ wss' = TRUE
    /\ pc' = "awaitServer"
    /\ UNCHANGED <<messages, maxTurns, turn, toolCalls, callIdx, modelCalls,
                   dispatchLog, lastOutcome, modelError, console, exitStatus>>
    /\ UNCHANGED <<webVars, chanVars, toolVars, pageVars, orchVars, botVars, localVars,
                   actVars, dashVars>>

\* the first connection while main awaits the server: the handler stores the
\* socket and calls resolve(); main resumes before any other event, finds
\* extClient set at the first test of its polling loop, leaves the loop, skips
\* the timeout branch and calls runAgent (cli.ts 1713-1741, 2845-2863)
ConnectAtStartup(c) ==
    /\ pc = "awaitServer"
    /\ wss
    /\ sockState[c] = "idle"
    /\ sockState' = [sockState EXCEPT ![c] = "open"]
    /\ extensionConnectedOnce' = TRUE
    /\ extClient' = c
    /\ pc' = "loopTop"
    /\ UNCHANGED <<messageId, pendingRequests, calls, timers, sent, now, lastHandled>>
    /\ UNCHANGED <<messages, maxTurns, turn, toolCalls, callIdx, modelCalls,
                   dispatchLog, lastOutcome, modelError, console>>
    /\ UNCHANGED <<webVars, toolVars, pageVars, orchVars, botVars, localVars, mainVars,
                   actVars, dashVars>>

(***************************************************************************)
(* Specifications.                                                         *)
(***************************************************************************)
\* let browserMode: BrowserMode = "cdp"
InitTool == browserMode = "cdp"

\* no orchestrated batch runs
InitOrchIdle ==
    /\ orchPc = "idle"
    /\ nSessions = 1
    /\ missionList = << >>
    /\ assignments = << >>
    /\ taskState = << >>
    /\ report = NoReport

\* no Telegram bot runs
InitBotIdle ==
    /\ allowedUsers = Missing
    /\ handled = << >>

Init ==
    /\ InitAgent /\ InitWeb /\ InitChan /\ InitTool
    /\ InitPageIdle /\ InitOrchIdle /\ InitBotIdle /\ InitLocalIdle /\ InitMainIdle
    /\ InitActuatorIdle /\ InitDashIdle

\* one CLI mission: main calls runAgent
Next ==
    \/ BeginTurn
    \/ LoopExhausted
    \/ \E m \in ModelErrors : ModelFails(m)
    \/ \E r \in Responses : ModelResponds(r)
    \/ DispatchTool
    \/ FinishTool
    \/ EndTurn
    \/ MainFinish

Spec == Init /\ [][Next]_vars

\* one dashboard task, with stopTask / deleteTask messages arriving at any time
NextStop ==
    \/ BeginTurnWeb
    \/ ObserveStop
    \/ LoopExhausted
    \/ \E m \in ModelErrors : ModelFails(m)
    \/ \E r \in Responses : ModelResponds(r)
    \/ DispatchTool
    \/ FinishTool
    \/ EndTurn
    \/ \E t \in TaskIds : StopTask(t)
    \/ \E t \in TaskIds : DeleteTask(t)

SpecStop == Init /\ [][NextStop]_vars

\* a tool name the registry does not hold
UnknownToolName == "browser_hover"

\* the timeMs arguments given to browser_wait: none, "", "5000", "90000", "0",
\* "-5", "abc", "1500ms"
TimeMsInputs ==
    { NoArg,
      Arg(<< >>),
      Arg(<< "5", "0", "0", "0" >>),
      Arg(<< "9", "0", "0", "0", "0" >>),
      Arg(<< "0" >>),
      Arg(<< "-", "5" >>),
      Arg(<< "a", "b", "c" >>),
      Arg(<< "1", "5", "0", "0", "m", "s" >>) }

\* one call of every tool of the registry, of browser_wait with every timeMs,
\* and of a tool the registry does not hold
DispatchCalls ==
    { ToolCall("call_a", n) : n \in (Registry \ { "browser_wait" }) \cup { UnknownToolName } }
        \cup { WaitCall("call_a", t) : t \in TimeMsInputs }

\* responses of a single block
DispatchResponses ==
    { [role |-> "assistant", content |-> << b >>] : b \in DispatchCalls \cup { TextBlock } }

\* --ext selects "extension", the default is "cdp"
BrowserModes == { "cdp", "extension" }

InitDispatch ==
    /\ InitAgent /\ InitWeb /\ InitChan
    /\ InitPageIdle /\ InitOrchIdle /\ InitBotIdle /\ InitLocalIdle /\ InitMainIdle
    /\ InitActuatorIdle /\ InitDashIdle
    /\ browserMode \in BrowserModes

\* a mission on either backend whose model calls one tool per turn; no
\* actuator connects
NextDispatch ==
    \/ BeginTurn
    \/ LoopExhausted
    \/ \E r \in DispatchResponses : ModelResponds(r)
    \/ DispatchTool
    \/ FinishTool
    \/ EndTurn

SpecDispatch == InitDispatch /\ [][NextDispatch]_vars

\* a mission on either backend, with an actuator that connects and answers
\* commands with results
NextRemote ==
    \/ BeginTurn
    \/ LoopExhausted
    \/ \E r \in DispatchResponses : ModelResponds(r)
    \/ DispatchTool
    \/ FinishTool
    \/ EndTurn
    \/ \E c \in OneConn : Connect(c)
    \/ \E c \in OneConn, msg \in ResultReplies : OnMessage(c, msg)

SpecRemote == InitDispatch /\ [][NextRemote]_vars

\* main in extension mode from its start: the server is started, main waits
\* for an actuator, then runs the mission and exits
InitStartup ==
    /\ maxTurns \in 0..MaxTurns
    /\ messages = << MissionMessage >>
    /\ turn = 0
    /\ pc = "startup"
    /\ toolCalls = << >>
    /\ callIdx = 0
    /\ modelCalls = 0
    /\ dispatchLog = << >>
    /\ lastOutcome = NoOutcome
    /\ modelError = "none"
    /\ console = << >>
    /\ InitWeb /\ InitChan
    /\ InitPageIdle /\ InitOrchIdle /\ InitBotIdle /\ InitLocalIdle /\ InitMainIdle
    /\ InitActuatorIdle /\ InitDashIdle
    /\ browserMode = "extension"

NextStartup ==
    \/ StartExtensionServer
    \/ \E c \in OneConn : ConnectAtStartup(c)
    \/ BeginTurn
    \/ LoopExhausted
    \/ \E r \in DispatchResponses : ModelResponds(r)
    \/ DispatchTool
    \/ FinishTool
    \/ EndTurn
    \/ MainFinish
    \/ \E c \in OneConn, msg \in ResultReplies : OnMessage(c, msg)

SpecStartup == InitStartup /\ [][NextStartup]_vars

\* main takes its own steps when it can; when an actuator connects or
\* answers is up to the actuator
FairStartup ==
    /\ WF_vars(StartExtensionServer)
    /\ WF_vars(BeginTurn)
    /\ WF_vars(LoopExhausted)
    /\ WF_vars(DispatchTool)
    /\ WF_vars(FinishTool)
    /\ WF_vars(EndTurn)
    /\ WF_vars(MainFinish)

SpecStartupFair == SpecStartup /\ FairStartup

\* the actuator's worker on its own: its triggers, its sockets and the
\* commands the server sends it
InitActuator ==
    /\ InitAgent /\ InitWeb /\ InitChan /\ InitTool
    /\ InitPageIdle /\ InitOrchIdle /\ InitBotIdle /\ InitLocalIdle /\ InitMainIdle
    /\ InitActuatorIdle /\ InitDashIdle
    /\ maxTurns = 0

Handlers == [id : 1..MaxCommands, sock : 1..MaxSockets, kind : CommandKinds]

NextActuator ==
    \/ \E trigger \in StartupTriggers : StartupConnect(trigger)
    \/ KeepAliveAlarm
    \/ RetryTimerFires
    \/ \E s \in 1..MaxSockets : SocketOpens(s)
    \/ \E s \in 1..MaxSockets : SocketCloses(s)
    \/ \E s \in 1..MaxSockets, kind \in CommandKinds : ReceiveCommand(s, kind)
    \/ \E h \in Handlers, ok \in BOOLEAN : HandlerFinishes(h, ok)

SpecActuator == InitActuator /\ [][NextActuator]_vars

\* the dashboard page and the server behind it
InitDash ==
    /\ InitAgent /\ InitWeb /\ InitChan /\ InitTool
    /\ InitPageIdle /\ InitOrchIdle /\ InitBotIdle /\ InitLocalIdle /\ InitMainIdle
    /\ InitActuatorIdle /\ InitDashIdle
    /\ maxTurns = 0

NextDash ==
    \/ \E t \in TaskIds : RunTask(t)
    \/ \E t \in TaskIds, m \in ServerMessages : ServerSends(t, m)
    \/ HandleMessage
    \/ \E t \in TaskIds : ClientStopTask(t)
    \/ \E t \in TaskIds : ClientDeleteTask(t)
    \/ \E t \in TaskIds : StopTask(t)
    \/ \E t \in TaskIds : DeleteTask(t)

SpecDash == InitDash /\ [][NextDash]_vars

\* the extension server, callers of sendExtCommand, and an actuator that
\* connects once and may put any frame on the wire
NextChan ==
    \/ \E c \in OneConn : Connect(c)
    \/ \E c \in OneConn : BeginClose(c)
    \/ \E c \in OneConn : CloseEvent(c)
    \/ \E cmd \in Commands : SendExtCommand(cmd)
    \/ \E c \in OneConn, msg \in Replies : OnMessage(c, msg)
    \/ Tick
    \/ \E id \in 1..MaxCalls : TimeoutFires(id)

\* no mission runs while the channel is exercised on its own
InitChannelOnly ==
    /\ InitAgent /\ InitWeb /\ InitChan
    /\ InitPageIdle /\ InitOrchIdle /\ InitBotIdle /\ InitLocalIdle /\ InitMainIdle
    /\ InitActuatorIdle /\ InitDashIdle
    /\ browserMode = "extension"
    /\ maxTurns = 0

SpecChan == InitChannelOnly /\ [][NextChan]_vars

\* the extension server, callers of sendExtCommand, and an actuator that
\* reconnects and whose replies all carry a result
NextReconnect ==
    \/ \E c \in Conns : Connect(c)
    \/ \E c \in Conns : BeginClose(c)
    \/ \E c \in Conns : CloseEvent(c)
    \/ \E cmd \in Commands : SendExtCommand(cmd)
    \/ \E c \in Conns, msg \in ResultReplies : OnMessage(c, msg)
    \/ Tick
    \/ \E id \in 1..MaxCalls : TimeoutFires(id)

SpecReconnect == InitChannelOnly /\ [][NextReconnect]_vars

\* timers run when due and the clock does not stop
FairReconnect ==
    /\ WF_vars(Tick)
    /\ \A id \in 1..MaxCalls : WF_vars(TimeoutFires(id))

SpecReconnectFair == SpecReconnect /\ FairReconnect

\* the selector arguments given to click, fill and download: none, "",
\* button:"OK", button, div, btn_1, #id, "a b", :"x", button:"
SelectorInputs ==
    { NoArg,
      Arg(<< >>),
      Arg(<< "b", "u", "t", "t", "o", "n", ":", "\"", "O", "K", "\"" >>),
      Arg(<< "b", "u", "t", "t", "o", "n" >>),
      Arg(<< "d", "i", "v" >>),
      Arg(<< "b", "t", "n", "_", "1" >>),
      Arg(<< "#", "i", "d" >>),
      Arg(<< "a", " ", "b" >>),
      Arg(<< ":", "\"", "x", "\"" >>),
      Arg(<< "b", "u", "t", "t", "o", "n", ":", "\"" >>) }

\* the calls run on the local browser: click and fill with every selector,
\* download with every selector and the filenames none, "", "a.pdf", wait with
\* timeMs none, "5000", "90000", "0", text none, "", "Hi", textGone none, "Bye"
\* and selector none, "#x"
PageCalls ==
    { [name |-> "browser_click", args |-> OpArgs(NoArg, NoArg, NoArg, sel, NoArg)] :
          sel \in SelectorInputs }
    \cup
    { [name |-> "browser_fill", args |-> OpArgs(NoArg, Arg(<< "v" >>), NoArg, sel, NoArg)] :
          sel \in SelectorInputs }
    \cup
    { [name |-> "browser_download", args |-> OpArgs(NoArg, NoArg, NoArg, sel, f)] :
          sel \in SelectorInputs,
          f \in { NoArg, Arg(<< >>), Arg(<< "a", ".", "p", "d", "f" >>) } }
    \cup
    { [name |-> "browser_wait", args |-> OpArgs(t, x, g, sel, NoArg)] :
          t \in { NoArg, Arg(<< "5", "0", "0", "0" >>),
                  Arg(<< "9", "0", "0", "0", "0" >>), Arg(<< "0" >>) },
          x \in { NoArg, Arg(<< >>), Arg(<< "H", "i" >>) },
          g \in { NoArg, Arg(<< "B", "y", "e" >>) },
          sel \in { NoArg, Arg(<< "#", "x" >>) } }

\* the pages a call may meet
Pages == [finds : SUBSET Lookups, downloads : BOOLEAN]

InitPage ==
    /\ InitAgent /\ InitWeb /\ InitChan /\ InitTool
    /\ InitOrchIdle /\ InitBotIdle /\ InitLocalIdle /\ InitMainIdle
    /\ InitActuatorIdle /\ InitDashIdle
    /\ maxTurns = 0
    /\ op \in PageCalls
    /\ opc = "begin"
    /\ stage = 1
    /\ results = << >>
    /\ pageLog = << >>
    /\ opOutcome = NoOutcome
    /\ page \in Pages
    /\ armed = FALSE
    /\ downloadEvent = "none"
    /\ savedAs = "none"

\* one executeBrowserTool call in cdp mode and the page it acts on
NextPage ==
    \/ GetPage
    \/ GetPageFails
    \/ WaitTest
    \/ WaitResolves
    \/ WaitRejects
    \/ WaitReturn
    \/ DownloadArm
    \/ StartAction
    \/ ActionResolves
    \/ ActionRejects
    \/ DownloadStarts
    \/ DownloadResolves
    \/ DownloadTimesOut
    \/ DownloadSave

SpecPage == InitPage /\ [][NextPage]_vars

\* a batch of up to MaxMissions missions over up to MaxSessions sessions
InitOrch ==
    /\ InitAgent /\ InitWeb /\ InitChan /\ InitTool
    /\ InitPageIdle /\ InitBotIdle /\ InitLocalIdle /\ InitMainIdle
    /\ InitActuatorIdle /\ InitDashIdle
    /\ maxTurns = 0
    /\ orchPc = "assign"
    /\ nSessions \in 1..MaxSessions
    /\ missionList \in { SubSeq(MissionNames, 1, n) : n \in 0..MaxMissions }
    /\ assignments = << >>
    /\ taskState = << >>
    /\ report = NoReport

NextOrch ==
    \/ Assign
    \/ Launch
    \/ \E i \in 1..MaxMissions : TaskActs(i)
    \/ \E i \in 1..MaxMissions : TaskActionEnds(i)
    \/ \E i \in 1..MaxMissions : TaskFulfils(i)
    \/ \E i \in 1..MaxMissions : TaskRejects(i)
    \/ Aggregate

SpecOrch == InitOrch /\ [][NextOrch]_vars

\* a bot started with one of the configurations
InitBot ==
    /\ InitAgent /\ InitWeb /\ InitChan /\ InitTool
    /\ InitPageIdle /\ InitOrchIdle /\ InitLocalIdle /\ InitMainIdle
    /\ InitActuatorIdle /\ InitDashIdle
    /\ maxTurns = 0
    /\ allowedUsers \in AllowedConfigs
    /\ handled = << >>

NextBot ==
    \/ \E u \in UserIds, res \in MissionResults : OnText(u, res)
    \/ \E u \in UserIds : OnOtherUpdate(u)

SpecBot == InitBot /\ [][NextBot]_vars

\* the local browser on its own: any sequence of startBrowser / stopBrowser
\* calls, one at a time, with every outcome of the fetches, the spawn, the
\* probes and the connections
InitBrowser ==
    /\ InitAgent /\ InitWeb /\ InitChan /\ InitTool
    /\ InitPageIdle /\ InitOrchIdle /\ InitBotIdle /\ InitLocalIdle /\ InitMainIdle
    /\ InitActuatorIdle /\ InitDashIdle
    /\ maxTurns = 0

NextBrowser ==
    \/ StartBrowser
    \/ \E ok \in BOOLEAN : ExistingProbe(ok)
    \/ \E ok \in BOOLEAN : ExistingConnect(ok)
    \/ \E found \in BOOLEAN : SpawnChrome(found)
    \/ ProcessExits
    \/ \E ok \in BOOLEAN : ReadinessProbe(ok)
    \/ ProbesExhausted
    \/ \E ok \in BOOLEAN : LaunchedConnect(ok)
    \/ StopBrowser
    \/ CloseResolves
    \/ CloseRejects

SpecBrowser == InitBrowser /\ [][NextBrowser]_vars

(***************************************************************************)
(* Properties of the agent loop.                                           *)
(***************************************************************************)
\* the tool calls of an assistant message, in the order the model emitted them
EmittedCalls(m) ==
    LET idx == { i \in 1..Len(m.content) : m.content[i].type = "toolCall" }
        nth[k \in 0..Len(m.content)] ==
            IF k = 0 THEN << >>
            ELSE IF k \in idx THEN Append(nth[k - 1], m.content[k]) ELSE nth[k - 1]
    IN  nth[Len(m.content)]

ContainsText(m) == \E i \in 1..Len(m.content) : m.content[i].type = "text"

AssistantAt(msgs) == { p \in 1..Len(msgs) : msgs[p].role = "assistant" }

\* the toolResult messages that directly follow position p
ResultsAfter(msgs, p) ==
    Cardinality({ q \in (p + 1)..Len(msgs) :
                    \A r \in (p + 1)..q : msgs[r].role = "toolResult" })

IsLastAssistant(msgs, p) == p \in AssistantAt(msgs) /\ \A q \in AssistantAt(msgs) : q <= p

InToolLoop == pc \in {"toolLoop", "awaitTool"}

Finished == pc \in {"returned", "threw", "exited"}

Printed(line) == \E i \in 1..Len(console) : console[i].line = line

\* C1: every tool call of every assistant response gets exactly one toolResult,
\* placed after the response in emission order, with the call's id and name,
\* whether executeBrowserTool returned or threw; while a turn is executing its
\* tools exactly the calls already settled have their result; and every
\* toolResult answers a tool call of an assistant message that precedes it.
ToolResultsMatchCalls ==
    /\ \A p \in AssistantAt(messages) :
          LET tcs == EmittedCalls(messages[p])
              done == IF IsLastAssistant(messages, p) /\ InToolLoop
                      THEN callIdx - 1 ELSE Len(tcs)
          IN  /\ ResultsAfter(messages, p) = done
              /\ \A j \in 1..done :
                    /\ messages[p + j].toolCallId = tcs[j].id
                    /\ messages[p + j].toolName = tcs[j].name
    /\ \A q \in 1..Len(messages) :
          messages[q].role = "toolResult" =>
            \E p \in AssistantAt(messages) :
                /\ p < q
                /\ \E j \in 1..Len(EmittedCalls(messages[p])) :
                      EmittedCalls(messages[p])[j].id = messages[q].toolCallId

\* a finished turn with two different calls, the first failed, the second succeeded
ToolResultsMatchCallsWitness ==
    /\ pc = "loopTop"
    /\ \E p \in AssistantAt(messages) :
          /\ Len(EmittedCalls(messages[p])) = 2
          /\ EmittedCalls(messages[p])[1].id # EmittedCalls(messages[p])[2].id
          /\ Len(messages) >= p + 2
          /\ messages[p + 1].role = "toolResult" /\ messages[p + 1].isError
          /\ messages[p + 2].role = "toolResult" /\ ~messages[p + 2].isError

\* C2: within a turn the tool calls are handed to executeBrowserTool one at a
\* time in emission order: when the dispatch of call k starts no dispatch is in
\* flight, the call is the k-th one the model emitted, and the toolResults of
\* calls 1..k-1 are already in the conversation, in that order.
DispatchInEmissionOrder ==
    [][ dispatchLog' # dispatchLog =>
          LET e == dispatchLog'[Len(dispatchLog')]
              p == CHOOSE q \in AssistantAt(messages) : IsLastAssistant(messages, q)
              tcs == EmittedCalls(messages[p])
          IN  /\ Len(dispatchLog') = Len(dispatchLog) + 1
              /\ pc # "awaitTool"
              /\ AssistantAt(messages) # {}
              /\ e.idx \in 1..Len(tcs)
              /\ e.call = tcs[e.idx]
              /\ Len(messages) = p + e.idx - 1
              /\ \A j \in 1..(e.idx - 1) :
                    /\ messages[p + j].role = "toolResult"
                    /\ messages[p + j].toolCallId = tcs[j].id
                    /\ messages[p + j].toolName = tcs[j].name
              /\ \A j \in 1..(e.idx - 1) :
                    /\ dispatchLog[Len(dispatchLog) - (e.idx - 1) + j].idx = j
                    /\ dispatchLog[Len(dispatchLog) - (e.idx - 1) + j].turn = e.turn
      ]_vars

\* the second of two different calls of one turn is being executed
DispatchInEmissionOrderWitness ==
    /\ pc = "awaitTool"
    /\ callIdx = 2
    /\ toolCalls[1] # toolCalls[2]
    /\ messages[Len(messages)].role = "toolResult"
    /\ Len(dispatchLog) >= 3

\* C3: when executeBrowserTool throws, the toolResult appended for the call
\* has isError = TRUE and the text "Error: <message>", the for-of loop goes on
\* (tool execution never leads out of the loop), at the end of the turn every
\* call of the turn has its result, and a run whose last message is a
\* toolResult has ended only because the turn budget is used up or a later
\* model call failed.
DispatcherFailureIsLocal ==
    /\ [][ (pc = "awaitTool" /\ pc' # "awaitTool" /\ lastOutcome'.kind = "throw") =>
              /\ Len(messages') = Len(messages) + 1
              /\ messages'[Len(messages')] =
                     [ role |-> "toolResult",
                       toolCallId |-> toolCalls[callIdx].id,
                       toolName |-> toolCalls[callIdx].name,
                       content |-> << [type |-> "text", text |-> "Error: " \o lastOutcome'.text] >>,
                       isError |-> TRUE ]
              /\ pc' = "toolLoop"
          ]_vars
    /\ [][ InToolLoop => pc' \in {"toolLoop", "awaitTool", "loopTop"} ]_vars
    /\ [](pc = "loopTop" =>
            \A p \in AssistantAt(messages) :
                ResultsAfter(messages, p) = Len(EmittedCalls(messages[p])))
    /\ []((Finished /\ messages[Len(messages)].role = "toolResult") =>
            (turn = maxTurns \/ modelError # "none"))

\* a call failed, a later call of the same turn ran, and the model was called again
DispatcherFailureIsLocalWitness ==
    \E q \in 1..Len(messages) :
        /\ messages[q].role = "toolResult" /\ messages[q].isError
        /\ q + 2 <= Len(messages)
        /\ messages[q + 1].role = "toolResult" /\ ~messages[q + 1].isError
        /\ messages[q + 2].role = "assistant"

\* C4: a response without tool call and with a text block ends the run right
\* after it is appended ("mission complete" is printed), and a run that has
\* ended makes no model call, dispatches no tool and appends nothing.
TextResponseTerminates ==
    /\ [][ (pc = "awaitModel" /\ Len(messages') > Len(messages)
               /\ EmittedCalls(messages'[Len(messages) + 1]) = << >>
               /\ ContainsText(messages'[Len(messages) + 1])) =>
              /\ Len(messages') = Len(messages) + 1
              /\ pc' = "returned"
              /\ console' = Append(console, [line |-> "MissionComplete", text |-> ""])
          ]_vars
    /\ [][ Finished =>
              /\ messages' = messages
              /\ modelCalls' = modelCalls
              /\ dispatchLog' = dispatchLog
              /\ pc' \in {"returned", "threw", "exited"}
          ]_vars

\* the run ended on a text-only answer given after a turn with tool calls
TextResponseTerminatesWitness ==
    /\ pc = "exited"
    /\ Printed("MissionComplete")
    /\ messages[Len(messages)].role = "assistant"
    /\ EmittedCalls(messages[Len(messages)]) = << >>
    /\ ContainsText(messages[Len(messages)])
    /\ turn < maxTurns
    /\ Len(dispatchLog) > 0

\* C5: the number of model calls never exceeds maxTurns, and every turn makes
\* exactly one model call, however many tool calls its response holds: at the
\* top of the loop the calls made equal the turns completed, inside a turn
\* they are one more.
OneModelCallPerTurn ==
    /\ modelCalls <= maxTurns
    /\ turn <= maxTurns
    /\ pc = "loopTop" => modelCalls = turn
    /\ pc \in {"awaitModel", "toolLoop", "awaitTool"} => modelCalls = turn + 1
    /\ Finished => modelCalls \in {turn, turn + 1}
    /\ Cardinality(AssistantAt(messages)) \in {modelCalls, modelCalls - 1}

\* the whole budget was used by turns with zero, one and two tool calls
OneModelCallPerTurnWitness ==
    /\ maxTurns >= 2
    /\ modelCalls = maxTurns
    /\ pc = "returned"
    /\ \E p \in AssistantAt(messages) : Len(EmittedCalls(messages[p])) = 2
    /\ \E p \in AssistantAt(messages) : Len(EmittedCalls(messages[p])) = 0

\* the run used up its turn budget: the loop test failed
BudgetExhausted == Finished /\ turn = maxTurns

\* C6: a run that uses up its whole turn budget reports "max turns exceeded":
\* it prints that outcome or leaves runAgent by throwing, it does not end
\* silently like a normal return.
ExhaustionIsReported ==
    (BudgetExhausted /\ maxTurns >= 1) =>
        (Printed("MaxTurnsExceeded") \/ Printed("Error") \/ pc = "threw")

StopRequested == lastCtl[RunTaskId] = "stopTask"

ReplySettlesCaller ==
    \A i \in 1..Len(calls) :
        calls[i].by.src = "reply" =>
            /\ calls[i].by.id = calls[i].id
            /\ calls[i].id \notin DOMAIN pendingRequests
            /\ calls[i].by.kind = "result" =>
                  (calls[i].state = "resolved" /\ calls[i].value = calls[i].by.value)
            /\ calls[i].by.kind = "error" =>
                  (calls[i].state = "rejected" /\ calls[i].value = calls[i].by.value)

\* the sendExtCommand calls whose promise is not settled yet
PendingCalls == { i \in 1..Len(calls) : calls[i].state = "pending" }

\* the message handlers have just been handed a frame
FrameHandled == lastHandled' # lastHandled

\* C11: a frame that JSON.parse rejects, or a reply whose id has no entry in
\* pendingRequests when it is handled (never sent, already answered, already
\* timed out), changes nothing: pendingRequests keeps its entries, no call is
\* resolved or rejected, and the server state is as before.
UnmatchedReplyIsNoOp ==
    [][ (/\ FrameHandled
         /\ \/ lastHandled'.kind = "garbage"
            \/ lastHandled'.id \notin DOMAIN pendingRequests)
        => /\ pendingRequests' = pendingRequests
           /\ calls' = calls
           /\ lastHandled'.matched = FALSE
           /\ UNCHANGED <<extClient, sockState, messageId, timers, sent>>
      ]_vars

\* a reply for the id of a request that had timed out was dropped while
\* another request was pending
UnmatchedReplyIsNoOpWitness ==
    /\ lastHandled.kind = "reply"
    /\ lastHandled.matched = FALSE
    /\ \E i \in 1..Len(calls) :
          /\ calls[i].id = lastHandled.id
          /\ calls[i].by.src = "timeout"
    /\ PendingCalls # {}
    /\ \A i \in PendingCalls : calls[i].id \in DOMAIN pendingRequests

\* sendExtCommand has just been called
CommandCalled == Len(calls') = Len(calls) + 1

\* the call sendExtCommand has just added
NewCall == calls'[Len(calls')]

\* C12: with no actuator connected (extClient null, or its socket not open)
\* sendExtCommand fails at once with the not-connected error: nothing is
\* transmitted, pendingRequests gets no entry, no correlation id is consumed
\* and no timeout is armed.
NotConnectedFailsAtOnce ==
    [][ (/\ CommandCalled
         /\ \/ extClient = NoConn
            \/ sockState[extClient] # "open")
        => /\ NewCall.state = "rejected"
           /\ NewCall.value = NotConnectedText
           /\ NewCall.id = 0
           /\ \A i \in 1..Len(calls) : calls'[i] = calls[i]
           /\ UNCHANGED <<messageId, pendingRequests, timers, sent>>
      ]_vars

\* a command was refused while extClient still held a connection whose socket
\* was closing; the command sent before it is still pending and is the only
\* one that took an id, a timer and a wire message
NotConnectedFailsAtOnceWitness ==
    /\ Len(calls) = 2
    /\ calls[1].state = "pending"
    /\ calls[2].by.src = "notConnected"
    /\ extClient # NoConn
    /\ sockState[extClient] = "closing"
    /\ messageId = 1
    /\ DOMAIN timers = {1}
    /\ Len(sent) = 1

\* C14: correlation ids are strictly increasing in the order commands are
\* sent, so no two commands share one; every key of pendingRequests lies
\* between 1 and messageId and stands for exactly one unsettled call.
CorrelationIdsUnique ==
    /\ \A i, j \in 1..Len(sent) : i < j => sent[i].id < sent[j].id
    /\ \A i, j \in 1..Len(calls) :
          (i < j /\ calls[i].id # 0 /\ calls[j].id # 0) => calls[i].id < calls[j].id
    /\ \A k \in DOMAIN pendingRequests :
          /\ 1 <= k
          /\ k <= messageId
          /\ pendingRequests[k] \in PendingCalls
          /\ calls[pendingRequests[k]].id = k
    /\ \A i \in PendingCalls :
          /\ calls[i].id \in DOMAIN pendingRequests
          /\ pendingRequests[calls[i].id] = i

\* two commands sent over different connections are pending under the ids 1
\* and 2: the counter went on across the reconnect
CorrelationIdsUniqueWitness ==
    /\ Len(calls) = 2
    /\ calls[1].id = 1
    /\ calls[2].id = 2
    /\ calls[1].conn # calls[2].conn
    /\ DOMAIN pendingRequests = {1, 2}
    /\ messageId = 2

\* the timeout callback armed for id has just run
TimerRan(id) == id \in DOMAIN timers /\ id \notin DOMAIN timers'

\* C13: a command still pending when its 60 s timer runs is rejected with the
\* timeout error and removed from pendingRequests, and no command is timed
\* out before 60 s have passed since it was sent; no request stays pending
\* beyond its window; a call that is settled stays as it was settled, so a
\* reply arriving after the timeout is dropped and a timer running after the
\* reply changes nothing.
TimeoutAfterWindow ==
    /\ [](\A i \in PendingCalls :
             /\ calls[i].id \in DOMAIN timers
             /\ now <= calls[i].sentAt + TimeoutMs)
    /\ [][ /\ \A i \in 1..Len(calls) :
                /\ (calls[i].state = "pending" /\ calls'[i].by.src = "timeout") =>
                      /\ now >= calls[i].sentAt + TimeoutMs
                      /\ calls'[i].state = "rejected"
                      /\ calls'[i].value = TimeoutText(calls[i].command)
                      /\ calls[i].id \notin DOMAIN pendingRequests'
                /\ calls[i].state # "pending" => calls'[i] = calls[i]
           /\ \A id \in 1..MaxCalls :
                TimerRan(id) =>
                   IF id \in DOMAIN pendingRequests
                   THEN /\ id \notin DOMAIN pendingRequests'
                        /\ calls'[pendingRequests[id]].by.src = "timeout"
                   ELSE UNCHANGED <<pendingRequests, calls>>
      ]_vars

\* command 1 timed out after 60 s and a reply for it came afterwards and was
\* dropped; command 2 had been answered and its timer ran later
TimeoutAfterWindowWitness ==
    /\ Len(calls) = 2
    /\ calls[1].by.src = "timeout"
    /\ calls[2].by.src = "reply"
    /\ calls[2].state = "resolved"
    /\ now >= calls[1].sentAt + TimeoutMs
    /\ DOMAIN timers = {}
    /\ lastHandled = [id |-> calls[1].id, kind |-> "reply", matched |-> FALSE]

\* the close handler of some connection has just run
Disconnected == \E c \in Conns : sockState[c] # "closed" /\ sockState'[c] = "closed"

\* call i is pending and the connection it was sent over has been closed
PendingAcrossDisconnect(i) ==
    /\ calls[i].state = "pending"
    /\ sockState[calls[i].conn] = "closed"

\* C15 as stated: a request that was pending when its connection was closed
\* leaves pendingRequests through its own timeout only, even when the frames
\* of superseded connections are left aside.
DisconnectLeavesToTimeout ==
    [][ \A i \in 1..Len(calls) :
           (/\ PendingAcrossDisconnect(i)
            /\ calls'[i].state # "pending"
            /\ calls'[i].by.src = "reply" => calls'[i].by.conn = extClient)
           => calls'[i].by.src = "timeout"
      ]_vars

\* C15: a disconnect sets extClient to null and removes and rejects no pending
\* request; a pending request leaves pendingRequests only through a reply
\* carrying its id or through its own timeout, not before 60 s; every command
\* is settled at most once and stays settled, and again and again no command
\* is left pending, so every command is eventually settled.
DisconnectKeepsPending ==
    /\ [][ Disconnected =>
              /\ extClient' = NoConn
              /\ UNCHANGED <<pendingRequests, calls, timers, messageId>>
         ]_vars
    /\ [][ \A i \in 1..Len(calls) :
              (calls[i].state = "pending" /\ calls'[i].state # "pending") =>
                 /\ calls[i].id \in DOMAIN pendingRequests
                 /\ calls[i].id \notin DOMAIN pendingRequests'
                 /\ \/ /\ calls'[i].by.src = "reply"
                       /\ calls'[i].by.id = calls[i].id
                    \/ /\ calls'[i].by.src = "timeout"
                       /\ now >= calls[i].sentAt + TimeoutMs
         ]_vars
    /\ [](\A i \in 1..Len(calls) :
             /\ calls[i].settles <= 1
             /\ calls[i].state # "pending" <=> calls[i].settles = 1)
    /\ [][ \A i \in 1..Len(calls) : calls[i].state # "pending" => calls'[i] = calls[i] ]_vars
    /\ []<>(PendingCalls = {})

\* command 1 outlived its connection and was rejected by its timeout; before
\* its window was over, command 2 had been refused for want of a connection
DisconnectKeepsPendingWitness ==
    /\ Len(calls) = 2
    /\ calls[1].by.src = "timeout"
    /\ sockState[calls[1].conn] = "closed"
    /\ calls[2].by.src = "notConnected"
    /\ calls[2].sentAt < calls[1].sentAt + TimeoutMs
    /\ extClient = NoConn

\* connection c has just been accepted
Accepted(c) == sockState[c] = "idle" /\ sockState'[c] = "open"

\* C16 as stated: when a connection is accepted, the requests pending over
\* the connections before it are failed at that moment.
ReconnectFailsPending ==
    [][ \A c \in Conns :
           Accepted(c) =>
              \A i \in PendingCalls :
                 calls[i].conn # c => calls'[i].state = "rejected"
      ]_vars

\* C16: when a connection is accepted while requests sent over the previous
\* one are pending, the new connection becomes extClient and nothing else of
\* the channel changes: no pending request is failed or removed, no timer is
\* touched.
ReconnectKeepsPending ==
    [][ \A c \in Conns :
           Accepted(c) =>
              /\ extClient' = c
              /\ UNCHANGED <<pendingRequests, calls, timers, messageId, sent>>
      ]_vars

\* connB was accepted while command 1, sent over connA, was pending; command
\* 2 went out over connB and both are pending
ReconnectKeepsPendingWitness ==
    /\ Len(calls) = 2
    /\ calls[1].conn = "connA"
    /\ calls[2].conn = "connB"
    /\ extClient = "connB"
    /\ PendingCalls = {1, 2}
    /\ DOMAIN pendingRequests = {1, 2}

\* C17: a reply that settles a request comes from the connection extClient
\* holds, the one accepted last; a frame sent by an older connection is not
\* processed.
OnlyLatestConnectionHeard ==
    [][ \A i \in PendingCalls :
           (calls'[i].by.src = "reply" /\ extClient # NoConn)
               => calls'[i].by.conn = extClient
      ]_vars

\* C35: when the close event of a connection fires while a connection
\* accepted after it is the actuator, extClient keeps referring to the newer
\* connection, so that a following sendExtCommand goes out over it.
OlderCloseKeepsNewerActive ==
    [][ \A c \in Conns :
           ( /\ sockState[c] = "closing"
             /\ sockState'[c] = "closed"
             /\ extClient \notin { c, NoConn } ) =>
               extClient' = extClient
      ]_vars

(***************************************************************************)
(* Properties of the tool dispatcher.                                      *)
(***************************************************************************)
\* the tool results of the conversation
ToolResults == { i \in 1..Len(messages) : messages[i].role = "toolResult" }

\* C18: the result recorded for a tool name outside the registry is an error
\* toolResult (isError = true), on both backends; it is never a successful
\* result.
UnknownToolIsError ==
    \A i \in ToolResults :
        messages[i].toolName \notin Registry => messages[i].isError

\* C19: in extension mode with no actuator connected, every tool call of the
\* registry, browser_wait and browser_download included, yields an error
\* toolResult that carries the not-connected error.
RemoteDownFailsEveryTool ==
    (browserMode = "extension" /\ ~extensionConnectedOnce) =>
        \A i \in ToolResults :
            messages[i].toolName \in Registry =>
                /\ messages[i].isError
                /\ messages[i].content = << ResultText("Error: " \o NotConnectedText) >>

\* the executeBrowserTool call handed over last has returned
LastReturned ==
    /\ dispatchLog # << >>
    /\ pc # "awaitTool"
    /\ lastOutcome.kind = "return"

LastCall == dispatchLog[Len(dispatchLog)].call

\* the timeMs strings of TimeMsInputs that parse to a positive integer, with it
PositiveTimeMs ==
    (<< "5", "0", "0", "0" >> :> 5000) @@ (<< "9", "0", "0", "0", "0" >> :> 90000)
        @@ (<< "1", "5", "0", "0", "m", "s" >> :> 1500)

\* C20: a browser_wait whose timeMs parses to a positive integer n waits
\* min(n, 60000) ms and returns "Waited <min(n, 60000)>ms"; with timeMs
\* missing, non-numeric or non-positive it makes no timed wait; on either
\* backend.
WaitNeverExceedsCap ==
    (LastReturned /\ LastCall.name = "browser_wait") =>
        LET a == LastCall.arguments.timeMs
        IN  IF a.present /\ a.chars \in DOMAIN PositiveTimeMs
            THEN LET n == PositiveTimeMs[a.chars]
                     ms == IF n <= 60000 THEN n ELSE 60000
                 IN  /\ lastOutcome.waitMs = ms
                     /\ lastOutcome.text = "Waited " \o ToString(ms) \o "ms"
            ELSE lastOutcome.waitMs = 0

(***************************************************************************)
(* Properties of the conversation.                                         *)
(***************************************************************************)
\* s is an initial segment of t
IsPrefix(s, t) == Len(s) <= Len(t) /\ SubSeq(t, 1, Len(s)) = s

\* the user messages of the conversation after the first message
LaterUserMessages ==
    { i \in 2..Len(messages) : messages[i].role = "user" }

\* C30: the conversation is append-only: every step leaves the previous
\* message sequence as a prefix of the new one; the first message is the
\* user message holding the mission, and every user message after it is the
\* synthetic nudge.
ConversationAppendOnly ==
    /\ [] ( /\ Len(messages) >= 1
            /\ messages[1] = [role |-> "user", content |-> "mission"]
            /\ \A i \in LaterUserMessages : messages[i].content = "nudge" )
    /\ [][ IsPrefix(messages, messages') ]_vars

\* a conversation that holds the mission, assistant responses, tool results
\* and a nudge
ConversationAppendOnlyWitness ==
    /\ LaterUserMessages # {}
    /\ \E i \in 1..Len(messages) : messages[i].role = "toolResult"
    /\ \E i \in 1..Len(messages) : messages[i].role = "assistant"

CountRole(role) == Cardinality({ i \in 1..Len(messages) : messages[i].role = role })

\* the number of tool calls the assistant messages up to position p emitted
RECURSIVE CallsEmittedUpTo(_)
CallsEmittedUpTo(p) ==
    IF p = 0 THEN 0
    ELSE CallsEmittedUpTo(p - 1) +
         (IF messages[p].role = "assistant" THEN Len(EmittedCalls(messages[p])) ELSE 0)

\* the run is over, no model call failed, and the model answered with tool
\* calls every time but the last, when it answered with text only
ToolTurnsThenText ==
    /\ Finished
    /\ modelError = "none"
    /\ AssistantAt(messages) # {}
    /\ \A p \in AssistantAt(messages) :
          IF IsLastAssistant(messages, p)
          THEN EmittedCalls(messages[p]) = << >> /\ ContainsText(messages[p])
          ELSE EmittedCalls(messages[p]) # << >>

\* C31: a run of k responses with tool calls followed by a text-only response
\* ends successfully after exactly k+1 model calls, within the budget, and its
\* conversation holds 1 user message, k+1 assistant messages and as many tool
\* results as tool calls were emitted.
ToolTurnsThenTextCounts ==
    ToolTurnsThenText =>
        /\ pc \in { "returned", "exited" }
        /\ Printed("MissionComplete")
        /\ modelCalls = CountRole("assistant")
        /\ modelCalls <= maxTurns
        /\ CountRole("user") = 1
        /\ CountRole("toolResult") = CallsEmittedUpTo(Len(messages))
        /\ Len(messages) = 1 + CountRole("assistant") + CountRole("toolResult")

\* k = 1, n_1 = 1: 1 user message, 2 assistant messages, 1 tool result
ToolTurnsThenTextCountsWitness ==
    /\ ToolTurnsThenText
    /\ modelCalls = 2
    /\ CountRole("user") = 1
    /\ CountRole("assistant") = 2
    /\ CountRole("toolResult") = 1

\* the assistant messages of the conversation are all empty: no tool call, no text
OnlyEmptyResponses ==
    \A p \in AssistantAt(messages) :
        EmittedCalls(messages[p]) = << >> /\ ~ContainsText(messages[p])

\* C32: an empty response is followed at once by exactly one nudge and the
\* run goes on with the next turn; while the model has answered empty every
\* time, nudges, assistant messages, model calls answered and turns used are
\* equal in number, and when such a run is over it has made exactly maxTurns
\* model calls and holds exactly maxTurns nudges.
EmptyResponseNudgesOnce ==
    /\ [][ ( /\ pc = "awaitModel"
             /\ Len(messages') > Len(messages)
             /\ EmittedCalls(messages'[Len(messages) + 1]) = << >>
             /\ ~ContainsText(messages'[Len(messages) + 1]) ) =>
               /\ Len(messages') = Len(messages) + 2
               /\ messages'[Len(messages')] = [role |-> "user", content |-> "nudge"]
               /\ turn' = turn + 1
               /\ pc' = "loopTop"
         ]_vars
    /\ [] ( (OnlyEmptyResponses /\ modelError = "none") =>
               /\ CountRole("user") = 1 + CountRole("assistant")
               /\ turn = CountRole("assistant")
               /\ modelCalls = turn + (IF pc = "awaitModel" THEN 1 ELSE 0)
               /\ Finished => /\ modelCalls = maxTurns
                              /\ CountRole("user") = 1 + maxTurns )

\* a budget of two turns, both answered empty: two model calls, two nudges, over
EmptyResponseNudgesOnceWitness ==
    /\ Finished
    /\ OnlyEmptyResponses
    /\ modelError = "none"
    /\ maxTurns = 2
    /\ modelCalls = 2
    /\ CountRole("user") = 3

(***************************************************************************)
(* Properties of one call on the local browser.                            *)
(***************************************************************************)
\* the fixed order of the conditions of browser_wait
ConditionOrder == << "timeMs", "text", "textGone", "selector" >>

Rank(what) == CHOOSE k \in 1..Len(ConditionOrder) : ConditionOrder[k] = what

GivenText(a) == a.present /\ a.chars # << >>

\* the condition is present in the call: a positive duration, a non-empty
\* text, textGone or selector
ConditionPresent(k) ==
    CASE k = 1 -> op.args.timeMs.present /\ op.args.timeMs.chars \in DOMAIN PositiveTimeMs
      [] k = 2 -> GivenText(op.args.text)
      [] k = 3 -> GivenText(op.args.textGone)
      [] k = 4 -> GivenText(op.args.selector)

PresentConditions == { k \in 1..Len(ConditionOrder) : ConditionPresent(k) }

\* the entry the result text holds for a condition
ExpectedEntry(k) ==
    CASE k = 1 -> LET n == PositiveTimeMs[op.args.timeMs.chars]
                  IN  "Waited " \o ToString(IF n <= 60000 THEN n ELSE 60000) \o "ms"
      [] k = 2 -> "Text \"" \o Interpolate(op.args.text.chars) \o "\" appeared"
      [] k = 3 -> "Text \"" \o Interpolate(op.args.textGone.chars) \o "\" disappeared"
      [] k = 4 -> "Element \"" \o Interpolate(op.args.selector.chars) \o "\" visible"

\* the entries of the present conditions from the k-th on, joined by ", "
RECURSIVE ExpectedFrom(_)
ExpectedFrom(k) ==
    IF k > Len(ConditionOrder) THEN ""
    ELSE IF ~ConditionPresent(k) THEN ExpectedFrom(k + 1)
    ELSE IF \E j \in PresentConditions : j > k
         THEN ExpectedEntry(k) \o ", " \o ExpectedFrom(k + 1)
         ELSE ExpectedEntry(k)

LogOf(ev) == { i \in 1..Len(pageLog) : pageLog[i].ev = ev }

IsWaitCall == op.name = "browser_wait"

\* C21: browser_wait on the local browser starts only conditions that are
\* present, in the order duration, text, textGone, selector, none skipped, and
\* each only after the one before it completed; when one fails the call
\* throws and starts nothing further; when the call returns every present
\* condition completed and the text is their entries in that order, joined by
\* ", ", or "Wait completed" when no condition is present.
WaitConditionsInOrder ==
    IsWaitCall =>
        /\ \A i \in LogOf("start") :
              /\ Rank(pageLog[i].what) \in PresentConditions
              /\ i > 1 => /\ pageLog[i - 1].ev = "done"
                          /\ Rank(pageLog[i - 1].what) < Rank(pageLog[i].what)
              /\ \A k \in PresentConditions :
                    k < Rank(pageLog[i].what) =>
                        \E j \in LogOf("done") : j < i /\ Rank(pageLog[j].what) = k
        /\ \A i \in LogOf("fail") :
              /\ i = Len(pageLog)
              /\ pageLog[i - 1] = [ev |-> "start", what |-> pageLog[i].what]
              /\ opc = "settled"
              /\ opOutcome.kind = "throw"
        /\ \A i \in LogOf("done") :
              pageLog[i - 1] = [ev |-> "start", what |-> pageLog[i].what]
        /\ opOutcome.kind = "return" =>
              /\ { Rank(pageLog[i].what) : i \in LogOf("done") } = PresentConditions
              /\ opOutcome.text = IF PresentConditions = {} THEN "Wait completed"
                                  ELSE ExpectedFrom(1)

\* a call with all four conditions returned
WaitConditionsInOrderWitness ==
    /\ IsWaitCall
    /\ PresentConditions = 1..4
    /\ opOutcome.kind = "return"
    /\ opOutcome.text =
          "Waited 5000ms, Text \"Hi\" appeared, Text \"Bye\" disappeared, Element \"#x\" visible"

\* the selector of the call is given and the case has looked it up
LookedUp == LogOf("lookup") # {}

\* the role tokens among the selectors explored: button
KnownRoleTokens == { << "b", "u", "t", "t", "o", "n" >> }

\* the tier the precedence rule gives a selector string
ExpectedTier(chars) ==
    IF RoleMatch(chars) THEN "getByRoleName"
    ELSE IF chars \in KnownRoleTokens THEN "getByRole"
    ELSE "locator"

\* C22: click, fill and download on the local browser make exactly one lookup
\* per selector string: the role-and-name lookup for role:"name"; else the
\* role-only lookup for a bare token that is a known role; else the literal
\* selector lookup, which a bare word that is no role (div) gets.
SelectorTierByPrecedence ==
    LookedUp =>
        /\ Cardinality(LogOf("lookup")) = 1
        /\ \A i \in LogOf("lookup") :
              pageLog[i].what = ExpectedTier(op.args.selector.chars)

\* C23: when the selector is a bare role token and the call fails, the
\* role-only lookup and the literal selector lookup have both been made.
BareRoleFallsBackToLiteral ==
    ( /\ LookedUp
      /\ op.args.selector.chars \in KnownRoleTokens
      /\ opOutcome.kind = "throw" ) =>
        /\ \E i \in LogOf("lookup") : pageLog[i].what = "getByRole"
        /\ \E i \in LogOf("lookup") : pageLog[i].what = "locator"

IsDownloadCall == op.name = "browser_download"

\* C24: in browser_download the wait for the download event is set up before
\* the click is issued and stays set up while the click and the wait for the
\* download are in progress, so a download the click starts, however early,
\* reaches the waiter.
DownloadArmedBeforeClick ==
    IsDownloadCall =>
        /\ \A i \in LogOf("click") : \E j \in LogOf("arm") : j < i
        /\ opc \in { "acting", "awaitDownload" } => armed
        /\ downloadEvent # "missed"

\* the download started while the click was still in progress and was caught
DownloadArmedBeforeClickWitness ==
    /\ IsDownloadCall
    /\ opc = "acting"
    /\ LogOf("click") # {}
    /\ downloadEvent = "captured"

\* C25: browser_download saves the file under the filename argument when one
\* is given, and under the name the download suggests when the argument is
\* absent or empty.
DownloadNameFallsBackToSuggested ==
    savedAs # "none" =>
        savedAs = IF GivenText(op.args.filename)
                  THEN Interpolate(op.args.filename.chars)
                  ELSE "report.pdf"

(***************************************************************************)
(* Properties of the parallel orchestrator.                                *)
(***************************************************************************)
Tasks == 1..Len(taskState)

\* C26: mission m_i is assigned to session s_(i mod k): the assignments are
\* computed before any task starts, hold one triple per mission, and never
\* change afterwards; no task is added later.
RoundRobinOnceUpFront ==
    /\ [] ( /\ orchPc \notin { "idle", "assign" } =>
                 /\ Len(assignments) = Len(missionList)
                 /\ \A i \in 1..Len(missionList) :
                       /\ assignments[i].mission = missionList[i]
                       /\ assignments[i].index = i - 1
                       /\ assignments[i].session = (i - 1) % nSessions
            /\ taskState # << >> =>
                 /\ orchPc \in { "wait", "done" }
                 /\ Len(taskState) = Len(missionList) )
    /\ [][ orchPc # "assign" => assignments' = assignments ]_vars

\* three missions over two sessions: s0, s1, s0, and the batch is through
RoundRobinOnceUpFrontWitness ==
    /\ report.done
    /\ nSessions = 2
    /\ Len(assignments) = 3
    /\ assignments[1].session = 0
    /\ assignments[2].session = 1
    /\ assignments[3].session = 0

\* C27: a step in which a task settles changes no other task; a settled task
\* keeps its outcome; the report is made only when every task has settled and
\* holds the outcome of every task and the counts of fulfilled and rejected
\* tasks.
FailureLeavesSiblings ==
    /\ [] ( report.done =>
              /\ \A i \in Tasks : taskState[i] \in { "fulfilled", "rejected" }
              /\ report.outcomes = taskState
              /\ report.fulfilled =
                    Cardinality({ i \in Tasks : taskState[i] = "fulfilled" })
              /\ report.rejected =
                    Cardinality({ i \in Tasks : taskState[i] = "rejected" })
              /\ report.fulfilled + report.rejected = Len(missionList) )
    /\ [][ \A i \in Tasks :
              /\ taskState[i] \in { "fulfilled", "rejected" } =>
                    taskState'[i] = taskState[i]
              /\ taskState'[i] # taskState[i] =>
                    \A j \in Tasks \ { i } : taskState'[j] = taskState[j]
         ]_vars

\* three missions over two sessions: the second mission of s0 failed, the
\* others succeeded, and the report says so
FailureLeavesSiblingsWitness ==
    /\ report.done
    /\ nSessions = 2
    /\ report.outcomes = << "fulfilled", "fulfilled", "rejected" >>
    /\ report.fulfilled = 2
    /\ report.rejected = 1

\* C28: no two tasks have a browser action in progress on the same session
\* at the same time.
SessionDrivenByOneTask ==
    \A i, j \in Tasks :
        (i # j /\ taskState[i] = "acting" /\ taskState[j] = "acting") =>
            assignments[i].session # assignments[j].session

(***************************************************************************)
(* Properties of the Telegram bot.                                         *)
(***************************************************************************)
Refusals == { << "notConfigured" >>, << "notAllowed" >> }

\* C29: onMessage is invoked only for a text message whose sender id is in
\* allowedUsers; with allowedUsers missing or empty it is never invoked; a
\* text message that is not served gets exactly one refusal reply.
BotServesOnlyAllowedUsers ==
    \A i \in 1..Len(handled) :
        LET h == handled[i]
        IN  /\ h.invoked =>
                  /\ h.isText
                  /\ allowedUsers.given
                  /\ h.from \in allowedUsers.ids
            /\ (h.isText /\ ~h.invoked) => h.replies \in Refusals

\* with allowedUsers = [1] a message of user 2 was refused and a message of
\* user 1 started a mission
BotServesOnlyAllowedUsersWitness ==
    /\ allowedUsers = [given |-> TRUE, ids |-> {1}]
    /\ Len(handled) = 2
    /\ handled[1] = [from |-> 2, isText |-> TRUE, replies |-> << "notAllowed" >>,
                     invoked |-> FALSE]
    /\ handled[2].from = 1
    /\ handled[2].invoked

\* the step hands the next tool call to executeBrowserTool
Dispatches == Len(dispatchLog') = Len(dispatchLog) + 1

\* C33: in extension mode, with the actuator connected, every dispatched tool of
\* the registry puts exactly one command on the wire, and no step starts or
\* touches the local browser; in direct mode dispatching a tool sends no
\* command and leaves pendingRequests and messageId as they are.
RemoteModeSendsOneCommandPerTool ==
    /\ [][ ( /\ Dispatches
             /\ browserMode = "extension"
             /\ toolCalls[callIdx].name \in Registry
             /\ extClient # NoConn
             /\ sockState[extClient] = "open" ) =>
               Len(sent') = Len(sent) + 1
         ]_vars
    /\ [][ (browserMode = "extension" /\ ~Dispatches) => sent' = sent ]_vars
    /\ [][ browserMode = "extension" => UNCHANGED <<browser, context, chromeProcess>> ]_vars
    /\ [][ browserMode = "cdp" => UNCHANGED <<sent, pendingRequests, messageId>> ]_vars

\* C34: main started in extension mode does not wait forever for an actuator:
\* either an actuator connects, or main gives up and exits with status 1.
StartupWaitIsBounded == <>(extensionConnectedOnce \/ exitStatus = "exit1")

(***************************************************************************)
(* Properties of the actuator.                                             *)
(***************************************************************************)
\* the frames sent that carry the id of a command
RepliesTo(id) == { k \in 1..Len(sentReplies) : sentReplies[k].id = id }

\* C36: every command gets at most one reply with its id, { id, result } when
\* its handler succeeded and { id, error } when it threw or the command is
\* unknown, none before the handler finished, and exactly one when its socket
\* was still open at the time the handler finished.
OneReplyPerCommand ==
    /\ \A h \in inflight : RepliesTo(h.id) = {}
    /\ \A i \in 1..Len(finished) :
          /\ Cardinality(RepliesTo(finished[i].id)) <= 1
          /\ \A k \in RepliesTo(finished[i].id) :
                sentReplies[k].kind = IF finished[i].ok THEN "result" ELSE "error"
          /\ finished[i].sockOpen => Cardinality(RepliesTo(finished[i].id)) = 1

\* the sockets that are connecting or open
LiveSockets == { s \in 1..Len(socks) : socks[s] \in { "connecting", "open" } }

\* C37: the worker has at most one live socket at any time, whatever the order
\* of the connect() calls of start-up, alarm and reconnect timer; the close of
\* a socket leaves a reference to another socket alone; every close arms a
\* reconnect attempt.
SingleSocket ==
    /\ [](Cardinality(LiveSockets) <= 1)
    /\ [][ \A s \in LiveSockets :
              (s \notin LiveSockets' /\ ws \notin { NoSocket, s }) => ws' = ws ]_vars
    /\ [][ \A s \in LiveSockets :
              s \notin LiveSockets' => retryTimers' = retryTimers + 1 ]_vars

(***************************************************************************)
(* Properties of the dashboard.                                            *)
(***************************************************************************)
\* C38: a task the page shows as stopped stays stopped until it is deleted,
\* whatever status, result or error message arrives later; and stoppedTasks
\* holds a task id exactly from its stopTask message to its deleteTask message.
StoppedStaysStopped ==
    /\ [][ \A t \in TaskIds :
              tasks[t] = "stopped" => tasks'[t] \in { "stopped", "deleted" } ]_vars
    /\ [](\A t \in TaskIds : t \in stoppedTasks <=> lastCtl[t] = "stopTask")

(***************************************************************************)
(* Properties of the local browser lifecycle.                              *)
(***************************************************************************)
\* C39: startBrowser changes nothing when a browser is attached; a launch makes
\* at most 50 readiness probes and attaches only after a successful one, and a
\* startBrowser that threw leaves browser and context null; once stopBrowser
\* has completed browser, context and chromeProcess are null, close() was
\* called on no attached browser and no launched process is still running; a
\* second stopBrowser changes nothing.
LocalBrowserLifecycle ==
    /\ [][ (lbPc = "idle" /\ lifecycle' = "start:returned" /\ browser # NoBrowser) =>
              UNCHANGED <<browser, context, chromeProcess, procs, probes, closeCalledOn>>
         ]_vars
    /\ [](probes <= MaxProbes)
    /\ [][ (browser = NoBrowser /\ browser' = "launched") =>
              (lbPc = "start:attach" /\ probes >= 1 /\ chromeProcess # NoProcess)
         ]_vars
    /\ [](lifecycle = "start:threw" => (browser = NoBrowser /\ context = NoContext))
    /\ [](lifecycle = "stop:returned" =>
              /\ browser = NoBrowser /\ context = NoContext /\ chromeProcess = NoProcess
              /\ "attached" \notin closeCalledOn
              /\ \A p \in 1..Len(procs) : procs[p] # "running")
    /\ [][ (lifecycle = "stop:returned" /\ lifecycle' = "stop:returned"
             /\ lifecycleCalls' = lifecycleCalls + 1) =>
              UNCHANGED <<browser, context, chromeProcess, procs, probes, closeCalledOn>>
         ]_vars

====
